---- MODULE Spec2Model ----
(***************************************************************************)
(* A model of the JEC financial analysis engine (backend generation):      *)
(* the record store (DataManager), the result cache (CacheManager) and the *)
(* aggregation engine (DataAnalyzer).                                      *)
(*                                                                         *)
(* A table (pandas DataFrame) is a record [cols, rows]: the set of column  *)
(* names and the sequence of rows, each row a record keyed by the column   *)
(* names.  A date cell holds the ordinal of the day its YYYY/MM/DD string  *)
(* denotes, or BadDate when the string does not parse.  An amount cell     *)
(* holds an integer, or NaN for a missing value.                           *)
(***************************************************************************)
EXTENDS Integers, Sequences, FiniteSets, TLC

VARIABLES
    source,        \* the backing database: kind -> [ok, cols, rows]
    loaded_data,   \* DataManager._loaded_data: kinds loaded -> table
    cache_entries, \* the cache backend's content: key -> [value, expires, returned]
    using_redis,   \* CacheManager.using_redis
    redis_down,    \* the networked store faults on every operation
    now,           \* the clock, in ticks
    calls,         \* the number of calls made so far
    ret,           \* the last call: operation, arguments, outcome
    threads        \* the calls concurrent callers are in: caller -> position, locals

vars ==
    <<source, loaded_data, cache_entries, using_redis, redis_down, now, calls, ret,
      threads>>

----------------------------------------------------------------------------
(* Bounds of the model *)

MaxTime == 2

(* ttl_seconds, counted in ticks of the model clock *)
TTL == 2

(* missing-value sentinel of an amount cell (numpy NaN) *)
NaN == -999

(* a date cell whose string does not parse *)
BadDate == -998

(* Python None inside a result structure *)
PyNone == -997

(* pandas NaT / a None date: no Gregorian date *)
NaT == -996

(* date.today(), as a Gregorian day ordinal *)
Today == 739924

(* Gregorian ordinal of the day before 1/1/1 of the local calendar *)
JalaliEpoch == 226895

----------------------------------------------------------------------------
(* models.py: the two enumerations, by machine id *)

FileType == {"Payable", "Receivable", "Invoices", "Performa"}

AnalysisType ==
    {"Daily Breakdown", "Cumulative", "Top Beneficiaries", "Summary Statistics",
     "On-time Payment", "Customer Loyalty", "Advanced Report", "Cash Flow",
     "Accounts Aging", "Profitability Analysis", "Forecast", "Integrated Trend"}

(* the columns pd.read_sql delivers for each kind (those the analyses read) *)
SchemaColumns(file_type) ==
    CASE file_type = "Payable" ->
           {"document_date", "amount", "due_date", "beneficiary"}
      [] file_type = "Receivable" ->
           {"document_date", "amount", "due_date", "company_name"}
      [] file_type = "Invoices" ->
           {"invoice_date", "customer_name", "order_code", "subtotal", "tax",
            "total_amount"}
      [] file_type = "Performa" ->
           {"performa_date", "order_code", "customer_name", "amount"}

----------------------------------------------------------------------------
(* Values *)

(* Python None, as a table and as a result *)
None == [none |-> TRUE]

IsNone(v) == "none" \in DOMAIN v

(* DataFrame.empty *)
Empty(df) == df.rows = <<>>

(* df.to_dict("records") *)
ToRecords(df) == [records |-> df.rows]

(* pd.DataFrame(cached): the columns are the keys of the row records *)
FromRecords(cached) ==
    IF cached.records = <<>>
    THEN [cols |-> {}, rows |-> <<>>]
    ELSE [cols |-> DOMAIN cached.records[1], rows |-> cached.records]

Put(f, k, v) == [x \in (DOMAIN f) \cup {k} |-> IF x = k THEN v ELSE f[x]]

Remove(f, k) == [x \in (DOMAIN f) \ {k} |-> f[x]]

RECURSIVE SumSeq(_)
SumSeq(s) == IF s = <<>> THEN 0 ELSE Head(s) + SumSeq(Tail(s))

----------------------------------------------------------------------------
(* cache.py: CacheManager *)

(* the keyword names the callers use, in the order sort_keys puts them *)
ParamOrder == <<"a", "b", "df", "forecast_days", "top_n">>

(* json.dumps of one keyword value.  A value JSON cannot encode goes through
   default=str and is written as the string str() gives. *)
JsonToken(value) ==
    CASE value.ty = "int" -> [json |-> "number", text |-> value.v]
      [] value.ty = "str" -> [json |-> "string", text |-> value.v]
      [] value.ty = "date" -> [json |-> "string", text |-> value.v]
      [] OTHER -> [json |-> "object", text |-> value.v]

(* json.dumps(kwargs, sort_keys=True, default=str) raises TypeError when a
   nested mapping has keys of different types: they cannot be sorted *)
DumpsRaises(kwargs) == \E i \in DOMAIN kwargs : kwargs[i][2].ty = "mixed_dict"

ValueOf(kwargs, name) ==
    kwargs[CHOOSE i \in DOMAIN kwargs : kwargs[i][1] = name][2]

(* params_str: the keywords sorted by name, each with its JSON token *)
ParamsStr(kwargs) ==
    LET names == {kwargs[i][1] : i \in DOMAIN kwargs}
        InKw(n) == n \in names
        ordered == SelectSeq(ParamOrder, InKw)
    IN  [i \in DOMAIN ordered |->
            <<ordered[i], JsonToken(ValueOf(kwargs, ordered[i]))>>]

(* hashlib.md5(...).hexdigest()[:8]: a function of the serialisation alone;
   the model keeps the serialisation itself as the digest *)
HashSuffix(params_str) == params_str

get_cache_key(prefix, kwargs) ==
    [prefix |-> prefix, hash_suffix |-> HashSuffix(ParamsStr(kwargs))]

(* str() of a value JSON cannot encode: a Timestamp or a date becomes text *)
JsonDate(d) == [type |-> "str", fmt |-> d.fmt, day |-> d.day]

(* json.dumps(value, default=str), read back by json.loads *)
JsonDumps(value) ==
    LET Dump(list) ==
            [i \in DOMAIN list |->
                IF "date" \in DOMAIN list[i]
                THEN [list[i] EXCEPT !.date = JsonDate(@)]
                ELSE list[i]]
    IN  IF "records" \in DOMAIN value
        THEN value
        ELSE [value EXCEPT !.detail = Dump(@), !.rollup = Dump(@)]

JsonLoads(text) == text

(* a lookup that hands back an entry whatever its expiry *)
CacheGet_IgnoresExpiry(entries, key) ==
    IF key \in DOMAIN entries
    THEN [value |-> entries[key].value, entries |-> entries]
    ELSE [value |-> None, entries |-> entries]

(* CacheManager.get: [value, entries].  A backend fault is caught and
   reported as a miss; the process-local map evicts an expired entry. *)
CacheGet(entries, key) ==
    IF using_redis
    THEN IF redis_down
         THEN [value |-> None, entries |-> entries]
         ELSE IF key \in DOMAIN entries
              THEN [value |-> JsonLoads(entries[key].value), entries |-> entries]
              ELSE [value |-> None, entries |-> entries]
    ELSE IF key \in DOMAIN entries
         THEN IF entries[key].expires > now
              THEN [value |-> entries[key].value, entries |-> entries]
              ELSE [value |-> None, entries |-> Remove(entries, key)]
         ELSE [value |-> None, entries |-> entries]

(* CacheManager.set: [ok, entries] *)
CacheSet(entries, key, value) ==
    IF using_redis
    THEN IF redis_down
         THEN [ok |-> FALSE, entries |-> entries]
         ELSE [ok |-> TRUE,
               entries |-> Put(entries, key,
                   [value |-> JsonDumps(value), expires |-> now + TTL])]
    ELSE [ok |-> TRUE,
          entries |-> Put(entries, key,
              [value |-> value, expires |-> now + TTL])]

(* CacheManager.delete: [ok, entries] *)
CacheDelete(entries, key) ==
    IF using_redis /\ redis_down
    THEN [ok |-> FALSE, entries |-> entries]
    ELSE [ok |-> TRUE, entries |-> Remove(entries, key)]

(* CacheManager.clear: [ok, entries] *)
CacheClear(entries) ==
    IF using_redis /\ redis_down
    THEN [ok |-> FALSE, entries |-> entries]
    ELSE [ok |-> TRUE, entries |-> <<>>]

----------------------------------------------------------------------------
(* data_manager.py: DataManager.  The operators thread the pair
   st = [loaded, entries] through the calls of one handler. *)

DbKey(file_type) == [prefix |-> <<"db_data", file_type>>, hash_suffix |-> <<>>]

(* a read that forgets the table of the kind when it fails *)
ReadDb_ForgetsOnFailure(st, file_type) ==
    LET df == [cols |-> source[file_type].cols, rows |-> source[file_type].rows]
    IN  IF ~source[file_type].ok \/ Empty(df)
        THEN [df |-> None,
              loaded |-> Remove(st.loaded, file_type),
              entries |-> CacheDelete(st.entries, DbKey(file_type)).entries]
        ELSE [df |-> df,
              loaded |-> Put(st.loaded, file_type, df),
              entries |->
                  CacheSet(st.entries, DbKey(file_type), ToRecords(df)).entries]

(* a read that hands back the table also when it has no rows *)
ReadDb_ReturnsEmpty(st, file_type) ==
    IF ~source[file_type].ok
    THEN [df |-> None, loaded |-> st.loaded, entries |-> st.entries]
    ELSE LET df == [cols |-> source[file_type].cols,
                    rows |-> source[file_type].rows]
         IN  [df |-> df,
              loaded |-> Put(st.loaded, file_type, df),
              entries |->
                  CacheSet(st.entries, DbKey(file_type), ToRecords(df)).entries]

(* load_file, the part that reads the database (lines 102-135) *)
ReadDb(st, file_type) ==
    IF ~source[file_type].ok
    THEN [df |-> None, loaded |-> st.loaded, entries |-> st.entries]
    ELSE LET df == [cols |-> source[file_type].cols,
                    rows |-> source[file_type].rows]
         IN  IF Empty(df)
             THEN [df |-> None, loaded |-> st.loaded, entries |-> st.entries]
             ELSE [df |-> df,
                   loaded |-> Put(st.loaded, file_type, df),
                   entries |->
                       CacheSet(st.entries, DbKey(file_type), ToRecords(df)).entries]

(* load_file without the cache lookup of lines 94-100 *)
load_file_NoCacheLookup(st, file_type, force_reload) == ReadDb(st, file_type)

load_file(st, file_type, force_reload) ==
    IF ~force_reload
    THEN LET got == CacheGet(st.entries, DbKey(file_type))
         IN  IF ~IsNone(got.value)
             THEN LET df == FromRecords(got.value)
                  IN  [df |-> df,
                       loaded |-> Put(st.loaded, file_type, df),
                       entries |-> got.entries]
             ELSE ReadDb([loaded |-> st.loaded, entries |-> got.entries], file_type)
    ELSE ReadDb(st, file_type)

(* get_dataframe that returns a loaded table also when a reload is forced *)
get_dataframe_NeverForced(st, file_type, force_reload) ==
    IF file_type \in DOMAIN st.loaded
    THEN [df |-> st.loaded[file_type], loaded |-> st.loaded, entries |-> st.entries]
    ELSE load_file(st, file_type, force_reload)

get_dataframe(st, file_type, force_reload) ==
    IF file_type \in DOMAIN st.loaded /\ ~force_reload
    THEN [df |-> st.loaded[file_type], loaded |-> st.loaded, entries |-> st.entries]
    ELSE load_file(st, file_type, force_reload)

(* clear_cache(file_type) of lines 216-218: [ok, entries]; the key deleted is
   "file_data:<kind>" *)
clear_cache(entries, file_type) ==
    CacheDelete(entries,
                [prefix |-> <<"file_data", file_type>>, hash_suffix |-> <<>>])

(* the members of FileType in the order of their definition *)
FileTypeOrder == <<"Payable", "Receivable", "Invoices", "Performa">>

(* the loop of load_all_files over the kinds still to load: a kind enters
   results only when load_file returned a table *)
RECURSIVE LoadEach(_, _, _, _)
LoadEach(st, kinds, force_reload, results) ==
    IF kinds = <<>>
    THEN [results |-> results, loaded |-> st.loaded, entries |-> st.entries]
    ELSE LET r == load_file(st, Head(kinds), force_reload)
         IN  LoadEach([loaded |-> r.loaded, entries |-> r.entries], Tail(kinds),
                      force_reload,
                      IF ~IsNone(r.df) THEN Put(results, Head(kinds), r.df)
                      ELSE results)

load_all_files(st, force_reload) == LoadEach(st, FileTypeOrder, force_reload, <<>>)

(* the state after get_dataframe(kind) for each kind of a sequence, in order *)
RECURSIVE GetAll(_, _)
GetAll(st, kinds) ==
    IF kinds = <<>>
    THEN st
    ELSE LET r == get_dataframe(st, Head(kinds), FALSE)
         IN  GetAll([loaded |-> r.loaded, entries |-> r.entries], Tail(kinds))

(* what get_dataframe(kind) returned in that sequence *)
Frame(st, file_type) ==
    IF file_type \in DOMAIN st.loaded THEN st.loaded[file_type] ELSE None

(* "df is not None and not df.empty" *)
Usable(df) == ~IsNone(df) /\ ~Empty(df)

-----------------------------------------------------------------------------
(* src/app/data_manager.py: the DataManager that reads the Excel files.  The
   column names stand for the Persian headers of the sheets: "bestankar" is
   the creditor amount, "jam_bahaye_kalaha_va_khadamat " the total of goods
   and services (its header ends with a space), "jam_bahaye_barge" the total
   of the sheet. *)

FileKey(file_type) == [prefix |-> <<"file_data", file_type>>, hash_suffix |-> <<>>]

(* the kinds that have an entry in FILE_CONFIGS *)
FileConfigs == {"Payable", "Invoices", "Performa"}

amount_cols == {"bestankar", "jam_bahaye_kalaha_va_khadamat ", "jam_bahaye_barge"}

(* a number as the quotient n / d, so that a division by 10 is exact *)
Number(v) == [n |-> v, d |-> 1]

Div10(x) == [n |-> x.n, d |-> x.d * 10]

(* pd.to_numeric(column, errors="coerce").fillna(0) / 10 on one cell *)
ToToman(cell) == Div10(Number(IF cell = NaN THEN 0 ELSE cell))

(* df.drop("Unnamed: 0", axis=1) on one row *)
DropColumn(row, col) == [c \in DOMAIN row \ {col} |-> row[c]]

(* dropna(how="all") keeps a row that has some cell *)
SomeCell(row) == \E c \in DOMAIN row : row[c] # NaN

(* load_file, the part that reads the sheet (lines 78-124) *)
ReadExcel(st, file_type) ==
    IF file_type \notin FileConfigs \/ ~source[file_type].ok
    THEN [df |-> None, loaded |-> st.loaded, entries |-> st.entries]
    ELSE LET cols == source[file_type].cols \ {"Unnamed: 0"}
             named == [i \in DOMAIN source[file_type].rows |->
                          DropColumn(source[file_type].rows[i], "Unnamed: 0")]
             kept == SelectSeq(named, SomeCell)
             Scale(row) ==
                 [c \in DOMAIN row |->
                     IF c \in amount_cols THEN ToToman(row[c]) ELSE row[c]]
             df == [cols |-> cols, rows |-> [i \in DOMAIN kept |-> Scale(kept[i])]]
         IN  [df |-> df,
              loaded |-> Put(st.loaded, file_type, df),
              entries |->
                  CacheSet(st.entries, FileKey(file_type), ToRecords(df)).entries]

(* load_file that scales once more the table it rebuilds from the cache *)
excel_load_file_RescalesCached(st, file_type, force_reload) ==
    LET got == CacheGet(st.entries, FileKey(file_type))
        Again(row) ==
            [c \in DOMAIN row |->
                IF c \in amount_cols THEN Div10(row[c]) ELSE row[c]]
    IN  IF ~force_reload /\ ~IsNone(got.value)
        THEN LET cached == FromRecords(got.value)
                 df == [cols |-> cached.cols,
                        rows |-> [i \in DOMAIN cached.rows |-> Again(cached.rows[i])]]
             IN  [df |-> df,
                  loaded |-> Put(st.loaded, file_type, df),
                  entries |-> got.entries]
        ELSE ReadExcel([loaded |-> st.loaded,
                        entries |-> IF force_reload THEN st.entries ELSE got.entries],
                       file_type)

(* load_file of the Excel generation (lines 58-124) *)
excel_load_file(st, file_type, force_reload) ==
    IF ~force_reload
    THEN LET got == CacheGet(st.entries, FileKey(file_type))
         IN  IF ~IsNone(got.value)
             THEN LET df == FromRecords(got.value)
                  IN  [df |-> df,
                       loaded |-> Put(st.loaded, file_type, df),
                       entries |-> got.entries]
             ELSE ReadExcel([loaded |-> st.loaded, entries |-> got.entries],
                            file_type)
    ELSE ReadExcel(st, file_type)

(* get_dataframe of the Excel generation (lines 174-189) *)
excel_get_dataframe(st, file_type, force_reload) ==
    IF file_type \in DOMAIN st.loaded /\ ~force_reload
    THEN [df |-> st.loaded[file_type], loaded |-> st.loaded, entries |-> st.entries]
    ELSE excel_load_file(st, file_type, force_reload)

----------------------------------------------------------------------------
(* analyzer.py: DataAnalyzer, the helpers *)

(* _jalali_to_gregorian: None for a missing or unparsable cell, else the
   Gregorian date of the local-calendar day *)
jalali_to_gregorian(jalali_str) ==
    IF jalali_str = BadDate THEN NaT ELSE jalali_str + JalaliEpoch

(* _to_jalali: "" for a missing date, else the local-calendar day *)
to_jalali(date_obj) ==
    IF date_obj = NaT THEN BadDate ELSE date_obj - JalaliEpoch

(* the column order of a table of each kind *)
ColumnOrder(file_type) ==
    CASE file_type = "Payable" ->
           <<"document_date", "amount", "due_date", "beneficiary">>
      [] file_type = "Receivable" ->
           <<"document_date", "amount", "due_date", "company_name">>
      [] file_type = "Invoices" ->
           <<"invoice_date", "customer_name", "order_code", "subtotal", "tax",
             "total_amount">>
      [] file_type = "Performa" ->
           <<"performa_date", "order_code", "customer_name", "amount">>

NumericNames == {"amount", "subtotal", "tax", "total_amount"}

DateNames == {"document_date", "due_date", "invoice_date", "performa_date"}

(* the cells of one column, in row order *)
Column(df, col) == [i \in DOMAIN df.rows |-> df.rows[i][col]]

(* df.select_dtypes(include=[np.number]) without the row-number columns *)
numeric_cols(file_type, df) ==
    LET Is(c) == c \in df.cols /\ c \in NumericNames
    IN  SelectSeq(ColumnOrder(file_type), Is)

(* the text columns in which one of the first five non-null cells looks
   like a date *)
date_cols(file_type, df) ==
    LET Good(x) == x # BadDate
        Is(c) == /\ c \in df.cols
                 /\ c \in DateNames
                 /\ SelectSeq(Column(df, c), Good) # <<>>
    IN  SelectSeq(ColumnOrder(file_type), Is)

(* the text columns that may name a beneficiary *)
string_cols(file_type, df) ==
    LET Is(c) == c \in df.cols /\ c \notin NumericNames /\ c \notin DateNames
    IN  SelectSeq(ColumnOrder(file_type), Is)

(* sort_values on the Gregorian date g, ascending; equal dates keep their order *)
RECURSIVE InsertByG(_, _)
InsertByG(sorted, r) ==
    IF sorted = <<>>
    THEN <<r>>
    ELSE IF Head(sorted).g <= r.g
         THEN <<Head(sorted)>> \o InsertByG(Tail(sorted), r)
         ELSE <<r>> \o sorted

RECURSIVE SortByG(_)
SortByG(s) ==
    IF s = <<>> THEN <<>> ELSE InsertByG(SortByG(SubSeq(s, 1, Len(s) - 1)), s[Len(s)])

Amounts(s) == [i \in DOMAIN s |-> s[i].amount]

(* Series.cumsum(): the running sum up to row i *)
CumSum(s, i) == SumSeq(SubSeq(Amounts(s), 1, i))

(* a result structure: the error message ("" when there is none), the scalar
   entries, the list of per-row records and the list of per-period records *)
ResultWith(fields, detail, rollup) ==
    [error |-> "", fields |-> fields, detail |-> detail, rollup |-> rollup]

Result(fields, detail) == ResultWith(fields, detail, <<>>)

ErrorResult(message) ==
    [error |-> message, fields |-> <<>>, detail |-> <<>>, rollup |-> <<>>]

(* the entries of a per-row record that hold numbers *)
NumberKeys ==
    {"amount", "cumulative", "sum", "count", "gap_days", "sales", "performa",
     "payable", "receivable", "net", "total_value", "k"}

(* a cleaning that stops at the lists of the structure *)
clean_data_TopLevelOnly(data) ==
    LET Clean(x) == IF x = NaN \/ x = NaT THEN PyNone ELSE x
    IN  [error |-> data.error,
         fields |-> [f \in DOMAIN data.fields |-> Clean(data.fields[f])],
         detail |-> data.detail,
         rollup |-> data.rollup]

(* _clean_data: every value of the structure that pd.isna finds missing, NaN
   or NaT, becomes None *)
clean_data(data) ==
    LET Clean(x) == IF x = NaN \/ x = NaT THEN PyNone ELSE x
        CleanList(list) ==
            [i \in DOMAIN list |->
                [f \in DOMAIN list[i] |->
                    IF f \in NumberKeys THEN Clean(list[i][f]) ELSE list[i][f]]]
    IN  [error |-> data.error,
         fields |-> [f \in DOMAIN data.fields |-> Clean(data.fields[f])],
         detail |-> CleanList(data.detail),
         rollup |-> CleanList(data.rollup)]

Timestamp(g) == [type |-> "Timestamp", fmt |-> "%Y-%m-%d %H:%M:%S", day |-> g]

DateObj(g) == [type |-> "date", fmt |-> "%Y-%m-%d", day |-> g]

DateStr(g) == [type |-> "str", fmt |-> "%Y-%m-%d", day |-> g]

----------------------------------------------------------------------------
(* analyzer.py: the analyses of one table *)

(* the names a grouping key can take, in the order groupby sorts them *)
NameOrder == <<"A", "B", "C">>

(* the distinct days of a set, ascending *)
RECURSIVE SortedDays(_)
SortedDays(days) ==
    IF days = {}
    THEN <<>>
    ELSE LET m == CHOOSE d \in days : \A e \in days : d <= e
         IN  <<m>> \o SortedDays(days \ {m})

(* sort_values(ascending=False) on k; equal keys keep their order *)
RECURSIVE InsertDescByK(_, _)
InsertDescByK(sorted, r) ==
    IF sorted = <<>>
    THEN <<r>>
    ELSE IF Head(sorted).k >= r.k
         THEN <<Head(sorted)>> \o InsertDescByK(Tail(sorted), r)
         ELSE <<r>> \o sorted

(* the groups left in the order of their names *)
SortDescByK_Unsorted(s) == s

RECURSIVE SortDescByK(_)
SortDescByK(s) ==
    IF s = <<>>
    THEN <<>>
    ELSE InsertDescByK(SortDescByK(SubSeq(s, 1, Len(s) - 1)), s[Len(s)])

Max(S) == CHOOSE m \in S : \A e \in S : e <= m

(* the rows of df with a parsable date in date_col and a number in
   amount_col, as [g, amount] *)
DatedAmounts(df, date_col, amount_col) ==
    LET all == [i \in DOMAIN df.rows |->
                   [g |-> jalali_to_gregorian(df.rows[i][date_col]),
                    amount |-> df.rows[i][amount_col]]]
        Kept(r) == r.g # NaT /\ r.amount # NaN
    IN  SelectSeq(all, Kept)

_analyze_daily_breakdown(file_type, df) ==
    IF Empty(df)
    THEN ErrorResult("No data available")
    ELSE LET nums == numeric_cols(file_type, df)
             dates == date_cols(file_type, df)
         IN  IF nums = <<>>
             THEN Result([rows |-> Len(df.rows)], <<>>)
             ELSE LET fields == [total_rows |-> Len(df.rows),
                                 total_columns |-> Cardinality(df.cols)]
                  IN  IF dates = <<>>
                      THEN Result(fields, <<>>)
                      ELSE LET kept == DatedAmounts(df, dates[1], nums[1])
                               days == SortedDays({kept[i].g : i \in DOMAIN kept})
                               OfDay(d) ==
                                   LET On(r) == r.g = d
                                   IN  Amounts(SelectSeq(kept, On))
                           IN  Result(fields,
                                   [i \in DOMAIN days |->
                                       [date |-> DateStr(days[i]),
                                        jalali_date |-> to_jalali(days[i]),
                                        sum |-> SumSeq(OfDay(days[i])),
                                        count |-> Len(OfDay(days[i]))]])

_analyze_cumulative(file_type, df) ==
    IF Empty(df)
    THEN ErrorResult("No data available")
    ELSE LET nums == numeric_cols(file_type, df)
             dates == date_cols(file_type, df)
             NotNa(x) == x # NaN
             total_sum ==
                 IF nums = <<>>
                 THEN 0
                 ELSE SumSeq(SelectSeq(Column(df, nums[1]), NotNa))
         IN  IF nums = <<>> \/ dates = <<>>
             THEN Result([total_sum |-> total_sum], <<>>)
             ELSE LET df_sorted == SortByG(DatedAmounts(df, dates[1], nums[1]))
                  IN  Result([total_sum |-> total_sum],
                          [i \in DOMAIN df_sorted |->
                              [date |-> Timestamp(df_sorted[i].g),
                               jalali_date |-> to_jalali(df_sorted[i].g),
                               amount |-> df_sorted[i].amount,
                               cumulative |-> CumSum(df_sorted, i)]])

(* the first of the preferred names that is among cols, else the first of cols *)
Preferred(priority, cols) ==
    LET In(c) == \E i \in DOMAIN cols : cols[i] = c
        hits == SelectSeq(priority, In)
    IN  IF hits # <<>> THEN hits[1] ELSE cols[1]

_analyze_top_beneficiaries(file_type, df, top_n) ==
    IF Empty(df)
    THEN ErrorResult("No data available")
    ELSE LET nums == numeric_cols(file_type, df)
             strs == string_cols(file_type, df)
         IN  IF strs = <<>> \/ nums = <<>>
             THEN Result([top_n |-> top_n], <<>>)
             ELSE LET beneficiary_col ==
                          Preferred(<<"customer_name", "beneficiary", "company_name">>,
                                    strs)
                      amount_col ==
                          Preferred(<<"total_amount", "amount", "subtotal">>, nums)
                      Kept(r) == r[amount_col] # NaN
                      rows == SelectSeq(df.rows, Kept)
                      Named(n) == \E i \in DOMAIN rows : rows[i][beneficiary_col] = n
                      names == SelectSeq(NameOrder, Named)
                      Of(n) == LET Is(r) == r[beneficiary_col] = n
                               IN  SelectSeq(rows, Is)
                      groups == [i \in DOMAIN names |->
                                    [name |-> names[i],
                                     k |-> SumSeq([j \in DOMAIN Of(names[i]) |->
                                               Of(names[i])[j][amount_col]]),
                                     count |-> Len(Of(names[i]))]]
                      ranked == SortDescByK(groups)
                      top_data == SubSeq(ranked, 1,
                                      IF top_n < Len(ranked) THEN top_n ELSE Len(ranked))
                  IN  Result([top_n |-> top_n],
                          [i \in DOMAIN top_data |->
                              [name |-> top_data[i].name,
                               sum |-> top_data[i].k,
                               count |-> top_data[i].count]])

_analyze_summary_stats(file_type, df) ==
    LET amount_col == IF file_type = "Invoices" THEN "total_amount" ELSE "amount"
        NotNa(x) == x # NaN
        fields == [total_rows |-> Len(df.rows),
                   total_columns |-> Cardinality(df.cols)]
    IN  IF amount_col \in df.cols
        THEN Result([total_rows |-> fields.total_rows,
                     total_columns |-> fields.total_columns,
                     total_sum |-> SumSeq(SelectSeq(Column(df, amount_col), NotNa))],
                    <<>>)
        ELSE Result(fields, <<>>)

(* the columns Customer Loyalty reads for a kind *)
LoyaltyNameCol(file_type) ==
    IF file_type = "Payable" THEN "beneficiary" ELSE "customer_name"

LoyaltyAmountCol(file_type) ==
    IF file_type = "Invoices" THEN "total_amount" ELSE "amount"

LoyaltyDateCol(file_type) ==
    CASE file_type = "Invoices" -> "invoice_date"
      [] file_type = "Performa" -> "performa_date"
      [] OTHER -> "document_date"

_analyze_customer_loyalty(file_type, df) ==
    IF Empty(df)
    THEN ErrorResult("No data")
    ELSE LET name_col == LoyaltyNameCol(file_type)
             amount_col == LoyaltyAmountCol(file_type)
             date_col == LoyaltyDateCol(file_type)
         IN  IF name_col \notin df.cols \/ amount_col \notin df.cols
             THEN ErrorResult("required columns not found")
             ELSE IF date_col \notin df.cols
                  THEN None  \* groupby(...).agg raises KeyError, caught at line 578
                  ELSE LET Named(n) == \E i \in DOMAIN df.rows : df.rows[i][name_col] = n
                           names == SelectSeq(NameOrder, Named)
                           Of(n) == LET Is(r) == r[name_col] = n
                                    IN  SelectSeq(df.rows, Is)
                           NotNa(x) == x # NaN
                           groups ==
                               [i \in DOMAIN names |->
                                   [customer_name |-> names[i],
                                    total_value |->
                                        SumSeq(SelectSeq(
                                            [j \in DOMAIN Of(names[i]) |->
                                                Of(names[i])[j][amount_col]], NotNa)),
                                    k |-> Len(SelectSeq(
                                            [j \in DOMAIN Of(names[i]) |->
                                                Of(names[i])[j][amount_col]], NotNa)),
                                    last_purchase |->
                                        Max({Of(names[i])[j][date_col] :
                                                 j \in DOMAIN Of(names[i])})]]
                       IN  Result([total_customers |-> Len(names)],
                                  SortDescByK(groups))

----------------------------------------------------------------------------
(* analyzer.py: the analyses that fetch their own tables.  Each takes the
   pair st = [loaded, entries] and gives [data, loaded, entries]. *)

Out(data, st) == [data |-> data, loaded |-> st.loaded, entries |-> st.entries]

HasCols(df, cols) == cols \subseteq df.cols

RECURSIVE Flatten(_)
Flatten(ss) == IF ss = <<>> THEN <<>> ELSE Head(ss) \o Flatten(Tail(ss))

(* Series.mean(): NaN for no values *)
Mean(vals) == IF vals = <<>> THEN NaN ELSE SumSeq(vals) \div Len(vals)

(* pd.merge(performa, invoices, on="order_code", how="left") *)
LeftJoin(performa_rows, invoice_rows) ==
    Flatten([i \in DOMAIN performa_rows |->
        LET p == performa_rows[i]
            Match(v) == v.order_code = p.order_code
            hits == SelectSeq(invoice_rows, Match)
        IN  IF hits = <<>>
            THEN <<[order_code |-> p.order_code, customer_name |-> p.customer_name,
                    performa_date |-> p.performa_date, invoice_date |-> BadDate]>>
            ELSE [j \in DOMAIN hits |->
                    [order_code |-> p.order_code, customer_name |-> p.customer_name,
                     performa_date |-> p.performa_date,
                     invoice_date |-> hits[j].invoice_date]]])

_analyze_on_time_payment(st0) ==
    LET st == GetAll(st0, <<"Performa", "Invoices">>)
        df_performa == Frame(st, "Performa")
        df_invoices == Frame(st, "Invoices")
    IN  IF IsNone(df_performa) \/ IsNone(df_invoices)
        THEN Out(ErrorResult("Missing data for analysis"), st)
        ELSE IF ~HasCols(df_performa,
                     {"order_code", "performa_date", "customer_name", "amount"})
                \/ ~HasCols(df_invoices,
                     {"order_code", "invoice_date", "total_amount"})
        THEN Out(None, st)  \* KeyError, caught at line 522
        ELSE LET joined == LeftJoin(df_performa.rows, df_invoices.rows)
                 Gap(r) ==
                     LET dp == jalali_to_gregorian(r.performa_date)
                         di == jalali_to_gregorian(r.invoice_date)
                     IN  IF dp = NaT \/ di = NaT THEN NaN ELSE di - dp
                 rows == [i \in DOMAIN joined |->
                     [order_code |-> joined[i].order_code,
                      customer_name |-> joined[i].customer_name,
                      gap_days |-> Gap(joined[i]),
                      is_paid |-> jalali_to_gregorian(joined[i].invoice_date) # NaT,
                      is_on_time |-> Gap(joined[i]) # NaN /\ Gap(joined[i]) <= 7]]
                 Paid(r) == r.is_paid
                 OnTime(r) == r.is_on_time
                 HasGap(r) == r.gap_days # NaN
                 gaps == SelectSeq(rows, HasGap)
             IN  Out(Result([total_performa |-> Len(df_performa.rows),
                             total_paid |-> Len(SelectSeq(rows, Paid)),
                             total_on_time |-> Len(SelectSeq(rows, OnTime)),
                             average_gap_days |->
                                 Mean([i \in DOMAIN gaps |-> gaps[i].gap_days])],
                            rows),
                     st)

(* Series.sum(): the missing values are skipped *)
ColumnSum(df, col) ==
    LET NotNa(x) == x # NaN
    IN  SumSeq(SelectSeq(Column(df, col), NotNa))

_analyze_advanced_report(st0) ==
    LET st == GetAll(st0, <<"Payable", "Invoices", "Performa">>)
        df_payable == Frame(st, "Payable")
        df_invoices == Frame(st, "Invoices")
        df_performa == Frame(st, "Performa")
        total_sales ==
            IF ~IsNone(df_invoices) THEN ColumnSum(df_invoices, "total_amount") ELSE 0
        total_payable ==
            IF ~IsNone(df_payable) THEN ColumnSum(df_payable, "amount") ELSE 0
    IN  IF \/ ~IsNone(df_invoices) /\ ~HasCols(df_invoices, {"total_amount"})
           \/ ~IsNone(df_payable) /\ ~HasCols(df_payable, {"amount"})
        THEN Out(None, st)  \* KeyError, caught at line 611
        ELSE IF ~IsNone(df_performa) /\ Len(df_performa.rows) > 0
                /\ IsNone(df_invoices)
        THEN Out(None, st)  \* len(df_invoices) raises TypeError, caught at line 611
        ELSE Out(Result(
                 [total_sales |-> total_sales,
                  total_payable |-> total_payable,
                  performa_count |->
                      IF ~IsNone(df_performa) THEN Len(df_performa.rows) ELSE 0,
                  invoice_count |->
                      IF ~IsNone(df_invoices) THEN Len(df_invoices.rows) ELSE 0,
                  conversion_rate_percent |->
                      IF ~IsNone(df_performa) /\ Len(df_performa.rows) > 0
                      THEN (100 * Len(df_invoices.rows)) \div Len(df_performa.rows)
                      ELSE 0,
                  net_position |-> total_sales - total_payable],
                 <<>>), st)

(* one source of the cash-flow series: the rows with a parsable date and a
   number, signed and tagged *)
Signed(df, date_col, amount_col, sign, type) ==
    IF ~Usable(df)
    THEN <<>>
    ELSE LET kept == DatedAmounts(df, date_col, amount_col)
         IN  [i \in DOMAIN kept |->
                 [g |-> kept[i].g, amount |-> sign * kept[i].amount, type |-> type]]

Positive(r) == r.amount > 0

Negative(r) == r.amount < 0

(* a rollup whose cumulative column is the sum of the day alone *)
DailyRollup_DayOnly(series) ==
    LET days == SortedDays({series[i].g : i \in DOMAIN series})
        OfDay(d) == LET On(r) == r.g = d IN Amounts(SelectSeq(series, On))
    IN  [i \in DOMAIN days |->
            [date |-> DateObj(days[i]),
             jalali_date |-> to_jalali(days[i]),
             amount |-> SumSeq(OfDay(days[i])),
             cumulative |-> SumSeq(OfDay(days[i]))]]

(* groupby(date).agg({"amount": "sum", "cumulative": "last"}) over a series
   sorted by date, with its running sum *)
DailyRollup(series) ==
    LET days == SortedDays({series[i].g : i \in DOMAIN series})
        LastOf(d) == Max({i \in DOMAIN series : series[i].g = d})
        OfDay(d) == LET On(r) == r.g = d IN Amounts(SelectSeq(series, On))
    IN  [i \in DOMAIN days |->
            [date |-> DateObj(days[i]),
             jalali_date |-> to_jalali(days[i]),
             amount |-> SumSeq(OfDay(days[i])),
             cumulative |-> CumSum(series, LastOf(days[i]))]]

_analyze_cash_flow(st0) ==
    LET st == GetAll(st0, <<"Payable", "Receivable", "Invoices", "Performa">>)
        df_payable == Frame(st, "Payable")
        df_receivable == Frame(st, "Receivable")
        df_invoices == Frame(st, "Invoices")
        df_performa == Frame(st, "Performa")
        Lacks(df, cols) == Usable(df) /\ ~HasCols(df, cols)
    IN  IF \/ Lacks(df_payable, {"due_date", "amount"})
           \/ Lacks(df_receivable, {"due_date", "amount"})
           \/ Lacks(df_invoices, {"invoice_date", "total_amount"})
           \/ Lacks(df_performa, {"performa_date", "amount"})
        THEN Out(None, st)  \* KeyError, caught at line 732
        ELSE IF ~Usable(df_payable) /\ ~Usable(df_receivable)
                /\ ~Usable(df_invoices) /\ ~Usable(df_performa)
        THEN Out(ErrorResult("No cash flow data available"), st)
        ELSE LET df_cash ==
                     SortByG(Signed(df_payable, "due_date", "amount", -1, "payable")
                             \o Signed(df_receivable, "due_date", "amount", 1,
                                       "receivable")
                             \o Signed(df_invoices, "invoice_date", "total_amount", 1,
                                       "invoice")
                             \o Signed(df_performa, "performa_date", "amount", 1,
                                       "performa"))
                 total_income == SumSeq(Amounts(SelectSeq(df_cash, Positive)))
                 total_outcome == -SumSeq(Amounts(SelectSeq(df_cash, Negative)))
             IN  Out(ResultWith(
                     [current_position |->
                          IF Len(df_cash) > 0 THEN CumSum(df_cash, Len(df_cash)) ELSE 0,
                      total_income |-> total_income,
                      total_outcome |-> total_outcome,
                      net_cash_flow |-> total_income - total_outcome],
                     [i \in DOMAIN df_cash |->
                         [date |-> Timestamp(df_cash[i].g),
                          jalali_date |-> to_jalali(df_cash[i].g),
                          amount |-> df_cash[i].amount,
                          type |-> df_cash[i].type,
                          cumulative |-> CumSum(df_cash, i)]],
                     DailyRollup(df_cash)), st)

(* the five lists of aging_buckets, by bucket name *)
BucketNames == {"current", "1-30", "31-60", "61-90", "90+"}

EmptyBuckets == [b \in BucketNames |-> <<>>]

(* the bucket of a row that is days_diff days past its due date *)
BucketOf(days_diff) ==
    IF days_diff < 0 THEN "current"
    ELSE IF days_diff <= 30 THEN "1-30"
    ELSE IF days_diff <= 60 THEN "31-60"
    ELSE IF days_diff <= 90 THEN "61-90"
    ELSE "90+"

(* the loop over the rows of one side (lines 760-781): the totals of the side
   and the bucket lists after it.  acc = [total, overdue, lists]. *)
RECURSIVE AgeRows(_, _)
AgeRows(rows, acc) ==
    IF rows = <<>>
    THEN acc
    ELSE LET row == Head(rows)
             due_date == jalali_to_gregorian(row.due_date)
             amount == row.amount
             days_diff == Today - due_date
             b == BucketOf(days_diff)
         IN  IF due_date = NaT \/ amount = NaN
             THEN AgeRows(Tail(rows), acc)
             ELSE AgeRows(Tail(rows),
                     [total |-> acc.total + amount,
                      overdue |-> IF b = "current"
                                  THEN acc.overdue
                                  ELSE acc.overdue + amount,
                      lists |-> [acc.lists EXCEPT ![b] = Append(@, amount)]])

(* one side: aging_buckets.copy() copies the dictionary, not its five lists,
   so the side appends to the lists it is handed and hands them on *)
AgeSide(df, lists) ==
    IF Usable(df)
    THEN AgeRows(df.rows, [total |-> 0, overdue |-> 0, lists |-> lists])
    ELSE [total |-> 0, overdue |-> 0, lists |-> lists]

_analyze_accounts_aging(st0) ==
    LET st == GetAll(st0, <<"Payable", "Receivable">>)
        df_payable == Frame(st, "Payable")
        df_receivable == Frame(st, "Receivable")
        Lacks(df) == Usable(df) /\ ~HasCols(df, {"due_date", "amount"})
    IN  IF Lacks(df_payable) \/ Lacks(df_receivable)
        THEN Out(None, st)  \* KeyError, caught at line 829
        ELSE LET payables_aging == AgeSide(df_payable, EmptyBuckets)
                 receivables_aging == AgeSide(df_receivable, payables_aging.lists)
                 \* both dictionaries hold the same five lists when summed
                 lists == receivables_aging.lists
             IN  Out(Result(
                     [payables_total |-> payables_aging.total,
                      payables_overdue |-> payables_aging.overdue,
                      payables_current |-> SumSeq(lists["current"]),
                      payables_1_30 |-> SumSeq(lists["1-30"]),
                      payables_31_60 |-> SumSeq(lists["31-60"]),
                      payables_61_90 |-> SumSeq(lists["61-90"]),
                      payables_90_plus |-> SumSeq(lists["90+"]),
                      receivables_total |-> receivables_aging.total,
                      receivables_overdue |-> receivables_aging.overdue,
                      receivables_current |-> SumSeq(lists["current"]),
                      receivables_1_30 |-> SumSeq(lists["1-30"]),
                      receivables_31_60 |-> SumSeq(lists["31-60"]),
                      receivables_61_90 |-> SumSeq(lists["61-90"]),
                      receivables_90_plus |-> SumSeq(lists["90+"]),
                      net_position |->
                          receivables_aging.total - payables_aging.total],
                     <<>>), st)

_analyze_profitability(st0) ==
    LET st == GetAll(st0, <<"Invoices", "Payable">>)
        df_invoices == Frame(st, "Invoices")
        df_payable == Frame(st, "Payable")
    IN  IF \/ Usable(df_invoices)
              /\ ~HasCols(df_invoices, {"total_amount", "subtotal", "tax",
                                        "customer_name", "invoice_date"})
           \/ Usable(df_payable) /\ ~HasCols(df_payable, {"amount"})
        THEN Out(None, st)  \* KeyError, caught at line 920
        ELSE LET total_revenue ==
                     IF Usable(df_invoices)
                     THEN ColumnSum(df_invoices, "total_amount") ELSE 0
                 total_revenue_pre_tax ==
                     IF Usable(df_invoices)
                     THEN ColumnSum(df_invoices, "subtotal") ELSE 0
                 total_tax ==
                     IF Usable(df_invoices) THEN ColumnSum(df_invoices, "tax") ELSE 0
                 total_costs ==
                     IF Usable(df_payable) THEN ColumnSum(df_payable, "amount") ELSE 0
             IN  Out(Result(
                     [total_revenue |-> total_revenue,
                      total_revenue_pre_tax |-> total_revenue_pre_tax,
                      total_tax |-> total_tax,
                      total_costs |-> total_costs,
                      gross_profit |-> total_revenue_pre_tax - total_costs,
                      net_profit |-> total_revenue - total_costs],
                     <<>>), st)

(* the first days of the Gregorian months July 2026 .. January 2027 *)
MonthStarts == <<739798, 739829, 739860, 739890, 739921, 739951, 739982>>

(* dt.to_period("M"): the month of a Gregorian day, as an index of MonthStarts *)
MonthOf(g) == Cardinality({i \in DOMAIN MonthStarts : MonthStarts[i] <= g})

(* the rows of df with a parsable date in date_col, as [g, amount] *)
Dated(df, date_col, amount_col) ==
    IF ~Usable(df)
    THEN <<>>
    ELSE LET all == [i \in DOMAIN df.rows |->
                        [g |-> jalali_to_gregorian(df.rows[i][date_col]),
                         amount |-> df.rows[i][amount_col]]]
             Kept(r) == r.g # NaT
         IN  SelectSeq(all, Kept)

(* groupby("month")[col].sum() of a month: the missing amounts are skipped *)
MonthSum(series, m) ==
    LET In(r) == MonthOf(r.g) = m /\ r.amount # NaN
    IN  SumSeq(Amounts(SelectSeq(series, In)))

Months(series) == {MonthOf(series[i].g) : i \in DOMAIN series}

_analyze_integrated_trend(st0) ==
    LET st == GetAll(st0, <<"Invoices", "Performa", "Payable", "Receivable">>)
        df_invoices == Frame(st, "Invoices")
        df_performa == Frame(st, "Performa")
        df_payable == Frame(st, "Payable")
        df_receivable == Frame(st, "Receivable")
        Lacks(df, cols) == Usable(df) /\ ~HasCols(df, cols)
        inv == Dated(df_invoices, "invoice_date", "total_amount")
        perf == Dated(df_performa, "performa_date", "amount")
        pay == Dated(df_payable, "due_date", "amount")
        rec == Dated(df_receivable, "due_date", "amount")
        \* monthly_inv and monthly_perf keep their sums in the columns
        \* "total_amount" and "amount"; only the cash frames have "value"
        cash_months == Months(pay) \cup Months(rec)
        months == SortedDays(Months(inv) \cup Months(perf) \cup cash_months)
        Net(m) == MonthSum(rec, m) - MonthSum(pay, m)
        RECURSIVE NetUpTo(_)
        NetUpTo(i) == IF i = 0 THEN 0 ELSE NetUpTo(i - 1) + Net(months[i])
    IN  IF \/ Lacks(df_invoices, {"invoice_date", "total_amount"})
           \/ Lacks(df_performa, {"performa_date", "amount"})
           \/ Lacks(df_payable, {"due_date", "amount"})
           \/ Lacks(df_receivable, {"due_date", "amount"})
        THEN Out(None, st)  \* KeyError, caught at line 1058
        ELSE IF months = <<>>
        THEN Out(ErrorResult("Lack of data for trend"), st)
        ELSE IF cash_months = {}
        THEN Out(None, st)  \* pivot(values="value") raises KeyError: no frame
                            \* has a "value" column
        ELSE Out(ResultWith(
                 [months |-> Len(months)],
                 <<>>,
                 [i \in DOMAIN months |->
                     [month |-> months[i],
                      \* pivot reads "value", which is NaN in the invoice and
                      \* pro-forma rows; fillna(0) makes it 0
                      sales |-> 0,
                      performa |-> 0,
                      payable |-> MonthSum(pay, months[i]),
                      receivable |-> MonthSum(rec, months[i]),
                      net |-> Net(months[i]),
                      cumulative |-> NetUpTo(i)]]), st)

(* the rows of one side due on or after today, signed (lines 1076-1105) *)
Future(df, sign, type) ==
    IF ~Usable(df)
    THEN <<>>
    ELSE LET all == [i \in DOMAIN df.rows |->
                        [g |-> jalali_to_gregorian(df.rows[i].due_date),
                         amount |-> IF df.rows[i].amount = NaN
                                    THEN NaN
                                    ELSE sign * df.rows[i].amount,
                         type |-> type]]
             Kept(r) == r.g # NaT /\ r.g >= Today /\ r.amount # NaN
         IN  SelectSeq(all, Kept)

Min(S) == CHOOSE m \in S : \A e \in S : m <= e

_analyze_forecast(st0, forecast_days) ==
    LET st == GetAll(st0, <<"Payable", "Receivable">>)
        df_payable == Frame(st, "Payable")
        df_receivable == Frame(st, "Receivable")
        Lacks(df) == Usable(df) /\ ~HasCols(df, {"due_date", "amount"})
    IN  IF Lacks(df_payable) \/ Lacks(df_receivable)
        THEN Out(None, st)  \* KeyError, caught at line 1170
        ELSE LET future_transactions ==
                     Future(df_payable, -1, "payable")
                     \o Future(df_receivable, 1, "receivable")
             IN  IF future_transactions = <<>>
                 THEN Out(ErrorResult("No future transactions to forecast"), st)
                 ELSE LET df_future == SortByG(future_transactions)
                          positions ==
                              {CumSum(df_future, i) : i \in DOMAIN df_future}
                      IN  Out(ResultWith(
                              [forecast_days |-> forecast_days,
                               total_incoming |->
                                   SumSeq(Amounts(SelectSeq(df_future, Positive))),
                               total_outgoing |->
                                   -SumSeq(Amounts(SelectSeq(df_future, Negative))),
                               net_forecast |-> SumSeq(Amounts(df_future)),
                               min_position |-> Min(positions),
                               max_position |-> Max(positions)],
                              [i \in DOMAIN df_future |->
                                  [date |-> DateObj(df_future[i].g),
                                   jalali_date |-> to_jalali(df_future[i].g),
                                   amount |-> df_future[i].amount,
                                   type |-> df_future[i].type,
                                   cumulative |-> CumSum(df_future, i)]],
                              DailyRollup(df_future)), st)

----------------------------------------------------------------------------
(* analyzer.py: DataAnalyzer.analyze *)

(* the analyses for which a missing primary table is tolerated (lines 116-119) *)
(* the list of lines 116-119 without its second member *)
ToleratedOnTimeOnly == {"On-time Payment"}

Tolerated == {"On-time Payment", "Advanced Report"}

HasKw(kwargs, name) == \E i \in DOMAIN kwargs : kwargs[i][1] = name

(* top_n: int = 10 *)
DefaultTopN == 10

(* the analyses called as self._analyze_x(file_type, df, **kwargs): a keyword
   named like a positional parameter makes the call itself raise TypeError *)
TakesDf ==
    {"Daily Breakdown", "Cumulative", "Top Beneficiaries", "Summary Statistics",
     "Customer Loyalty"}

CallRaises(analysis_type, kwargs) ==
    analysis_type \in TakesDf /\ HasKw(kwargs, "df")

(* the if/elif chain of lines 124-148; a kind with no branch ends in the
   else branch, which returns None *)
Dispatch(st, file_type, analysis_type, df, kwargs) ==
    CASE analysis_type = "Daily Breakdown" ->
           Out(_analyze_daily_breakdown(file_type, df), st)
      [] analysis_type = "Cumulative" ->
           Out(_analyze_cumulative(file_type, df), st)
      [] analysis_type = "Top Beneficiaries" ->
           IF ~HasKw(kwargs, "top_n")
           THEN Out(_analyze_top_beneficiaries(file_type, df, DefaultTopN), st)
           ELSE IF ValueOf(kwargs, "top_n").ty = "int"
           THEN Out(_analyze_top_beneficiaries(file_type, df,
                                               ValueOf(kwargs, "top_n").n), st)
           ELSE Out(None, st)  \* head(top_n) raises, caught at line 401
      [] analysis_type = "Summary Statistics" ->
           Out(_analyze_summary_stats(file_type, df), st)
      [] analysis_type = "On-time Payment" -> _analyze_on_time_payment(st)
      [] analysis_type = "Customer Loyalty" ->
           Out(_analyze_customer_loyalty(file_type, df), st)
      [] analysis_type = "Advanced Report" -> _analyze_advanced_report(st)
      [] analysis_type = "Cash Flow" -> _analyze_cash_flow(st)
      [] analysis_type = "Accounts Aging" -> _analyze_accounts_aging(st)
      [] analysis_type = "Profitability Analysis" -> _analyze_profitability(st)
      [] analysis_type = "Integrated Trend" -> _analyze_integrated_trend(st)
      [] OTHER -> Out(None, st)

AnalysisKey(file_type, analysis_type, kwargs) ==
    get_cache_key(<<"analysis", file_type, analysis_type>>, kwargs)

(* the outcome of a call of analyze *)
Outcome(outcome, hit, primary, data, loaded, entries) ==
    [outcome |-> outcome, hit |-> hit, primary |-> primary, data |-> data,
     loaded |-> loaded, entries |-> entries]

(* lines 150-165: a null result is returned as it is; any other is cleaned,
   cached and returned *)
Finish(r, cache_key, primary) ==
    IF IsNone(r.data)
    THEN Outcome("returned", FALSE, primary, None, r.loaded, r.entries)
    ELSE Outcome("returned", FALSE, primary, clean_data(r.data), r.loaded,
                 CacheSet(r.entries, cache_key, clean_data(r.data)).entries)

(* lines 114-148: the guard on the primary table got.df, then the dispatch *)
Compute(got, file_type, analysis_type, kwargs, cache_key) ==
    IF ~Usable(got.df) /\ analysis_type \notin Tolerated
    THEN Outcome("returned", FALSE, FALSE, None, got.loaded, got.entries)
    ELSE IF CallRaises(analysis_type, kwargs)
    THEN Outcome("raised", FALSE, Usable(got.df), None, got.loaded, got.entries)
    ELSE Finish(Dispatch([loaded |-> got.loaded, entries |-> got.entries],
                         file_type, analysis_type, got.df, kwargs),
                cache_key, Usable(got.df))

(* lines 101-113: a truthy cached value is returned; else the primary table
   is fetched *)
Lookup(st0, cached, file_type, analysis_type, kwargs, cache_key) ==
    IF ~IsNone(cached.value)
    THEN Outcome("returned", TRUE, FALSE, cached.value, st0.loaded, cached.entries)
    ELSE Compute(get_dataframe([loaded |-> st0.loaded, entries |-> cached.entries],
                               file_type, FALSE),
                 file_type, analysis_type, kwargs, cache_key)

(* the outcome of analyze from the store state st0:
   [outcome, hit, primary, data, loaded, entries] *)
analyze(st0, file_type, analysis_type, kwargs) ==
    IF DumpsRaises(kwargs)
    THEN Outcome("raised", FALSE, FALSE, None, st0.loaded, st0.entries)
    ELSE Lookup(st0,
                CacheGet(st0.entries, AnalysisKey(file_type, analysis_type, kwargs)),
                file_type, analysis_type, kwargs,
                AnalysisKey(file_type, analysis_type, kwargs))

(* the members of AnalysisType in the order of their definition *)
AnalysisOrder ==
    <<"Daily Breakdown", "Cumulative", "Top Beneficiaries", "Summary Statistics",
      "On-time Payment", "Customer Loyalty", "Advanced Report", "Cash Flow",
      "Accounts Aging", "Profitability Analysis", "Forecast", "Integrated Trend">>

(* the analyses get_all_analyses leaves out but one *)
CrossFileOnTimeOnly == {"On-time Payment"}

(* the analyses get_all_analyses leaves out (lines 460-464) *)
CrossFile == {"On-time Payment", "Advanced Report"}

(* the loop of get_all_analyses over the analyses still to run; r is what
   analyze gave for the first of them: [outcome, results, loaded, entries] *)
RECURSIVE RunEach(_, _, _, _)
Collect(r, todo, file_type, results) ==
    IF r.outcome = "raised"
    THEN [outcome |-> "raised", results |-> <<>>, loaded |-> r.loaded,
          entries |-> r.entries]
    ELSE RunEach([loaded |-> r.loaded, entries |-> r.entries], Tail(todo),
                 file_type,
                 IF ~IsNone(r.data) THEN Put(results, Head(todo), r.data)
                 ELSE results)

RunEach(st, todo, file_type, results) ==
    IF todo = <<>>
    THEN [outcome |-> "returned", results |-> results, loaded |-> st.loaded,
          entries |-> st.entries]
    ELSE IF Head(todo) \in CrossFile
    THEN RunEach(st, Tail(todo), file_type, results)
    ELSE Collect(analyze(st, file_type, Head(todo), <<>>), todo, file_type, results)

get_all_analyses(st, file_type) == RunEach(st, AnalysisOrder, file_type, <<>>)

Store == [loaded |-> loaded_data, entries |-> cache_entries]

----------------------------------------------------------------------------
(* The calls *)

(* the call has ended with the outcome r *)
Ended(r, file_type, analysis_type, kwargs) ==
    /\ loaded_data' = r.loaded
    /\ cache_entries' = r.entries
    /\ ret' = [op |-> "analyze", file_type |-> file_type,
               analysis_type |-> analysis_type, kwargs |-> kwargs,
               outcome |-> r.outcome, hit |-> r.hit, primary |-> r.primary,
               down |-> using_redis /\ redis_down, data |-> r.data]
    /\ calls' = calls + 1
    /\ UNCHANGED <<threads, source, using_redis, redis_down, now>>

Analyze(file_type, analysis_type, kwargs) ==
    Ended(analyze(Store, file_type, analysis_type, kwargs),
          file_type, analysis_type, kwargs)

AllEnded(r, file_type) ==
    /\ loaded_data' = r.loaded
    /\ cache_entries' = r.entries
    /\ ret' = [op |-> "get_all_analyses", file_type |-> file_type,
               outcome |-> r.outcome, results |-> r.results]
    /\ calls' = calls + 1
    /\ UNCHANGED <<threads, source, using_redis, redis_down, now>>

GetAllAnalyses(file_type) == AllEnded(get_all_analyses(Store, file_type), file_type)

LoadFile(file_type, force_reload) ==
    LET r == load_file(Store, file_type, force_reload)
    IN  /\ loaded_data' = r.loaded
        /\ cache_entries' = r.entries
        /\ ret' = [op |-> "load_file", file_type |-> file_type,
                   force_reload |-> force_reload, df |-> r.df]
        /\ calls' = calls + 1
        /\ UNCHANGED <<threads, source, using_redis, redis_down, now>>

LoadAllFiles(force_reload) ==
    LET r == load_all_files(Store, force_reload)
    IN  /\ loaded_data' = r.loaded
        /\ cache_entries' = r.entries
        /\ ret' = [op |-> "load_all_files", force_reload |-> force_reload,
                   results |-> r.results]
        /\ calls' = calls + 1
        /\ UNCHANGED <<threads, source, using_redis, redis_down, now>>

GetDataframe(file_type, force_reload) ==
    LET r == get_dataframe(Store, file_type, force_reload)
    IN  /\ loaded_data' = r.loaded
        /\ cache_entries' = r.entries
        /\ ret' = [op |-> "get_dataframe", file_type |-> file_type,
                   force_reload |-> force_reload, df |-> r.df]
        /\ calls' = calls + 1
        /\ UNCHANGED <<threads, source, using_redis, redis_down, now>>

ClearCache(file_type) ==
    LET r == clear_cache(cache_entries, file_type)
    IN  /\ cache_entries' = r.entries
        /\ ret' = [op |-> "clear_cache", file_type |-> file_type, ok |-> r.ok]
        /\ calls' = calls + 1
        /\ UNCHANGED <<threads, source, loaded_data, using_redis, redis_down, now>>

Get(key) ==
    LET r == CacheGet(cache_entries, key)
    IN  /\ cache_entries' = r.entries
        /\ ret' = [op |-> "get", key |-> key,
                   down |-> using_redis /\ redis_down, value |-> r.value]
        /\ calls' = calls + 1
        /\ UNCHANGED <<threads, source, loaded_data, using_redis, redis_down, now>>

Set(key, value) ==
    LET r == CacheSet(cache_entries, key, value)
    IN  /\ cache_entries' = r.entries
        /\ ret' = [op |-> "set", key |-> key, value |-> value,
                   down |-> using_redis /\ redis_down, ok |-> r.ok]
        /\ calls' = calls + 1
        /\ UNCHANGED <<threads, source, loaded_data, using_redis, redis_down, now>>

Delete(key) ==
    LET r == CacheDelete(cache_entries, key)
    IN  /\ cache_entries' = r.entries
        /\ ret' = [op |-> "delete", key |-> key,
                   down |-> using_redis /\ redis_down, ok |-> r.ok]
        /\ calls' = calls + 1
        /\ UNCHANGED <<threads, source, loaded_data, using_redis, redis_down, now>>

Clear ==
    LET r == CacheClear(cache_entries)
    IN  /\ cache_entries' = r.entries
        /\ ret' = [op |-> "clear",
                   down |-> using_redis /\ redis_down, ok |-> r.ok]
        /\ calls' = calls + 1
        /\ UNCHANGED <<threads, source, loaded_data, using_redis, redis_down, now>>

----------------------------------------------------------------------------
(* The environment *)

(* time passes; the networked store drops the keys whose TTL has run out *)
Tick ==
    /\ now < MaxTime
    /\ now' = now + 1
    /\ cache_entries' =
           IF using_redis
           THEN LET live == {k \in DOMAIN cache_entries :
                                 cache_entries[k].expires > now + 1}
                IN  [k \in live |-> cache_entries[k]]
           ELSE cache_entries
    /\ UNCHANGED <<threads, source, loaded_data, using_redis, redis_down, calls, ret>>

(* the content of a kind's database table changes *)
SourceChange(file_type, table) ==
    /\ source[file_type] # table
    /\ source' = [source EXCEPT ![file_type] = table]
    /\ UNCHANGED <<threads, loaded_data, cache_entries, using_redis, redis_down, now, calls,
                   ret>>

(* the networked store becomes unreachable, or reachable again *)
RedisDown ==
    /\ using_redis /\ ~redis_down
    /\ redis_down' = TRUE
    /\ UNCHANGED <<threads, source, loaded_data, cache_entries, using_redis, now, calls, ret>>

RedisUp ==
    /\ using_redis /\ redis_down
    /\ redis_down' = FALSE
    /\ UNCHANGED <<threads, source, loaded_data, cache_entries, using_redis, now, calls, ret>>

----------------------------------------------------------------------------
(* The tables the behaviours are explored over *)

(* the calls one behaviour makes *)
MaxCalls == 3

(* the local-calendar cell of the day n days from today *)
Day(n) == Today + n - JalaliEpoch

Unreadable == [ok |-> FALSE, cols |-> {}, rows |-> <<>>]

Table(file_type, rows) ==
    [ok |-> TRUE, cols |-> SchemaColumns(file_type), rows |-> rows]

PayableRows1 ==
    << [document_date |-> Day(-40), amount |-> 100, due_date |-> Day(5),
        beneficiary |-> "A"],
       [document_date |-> Day(-70), amount |-> 50, due_date |-> Day(-31),
        beneficiary |-> "B"] >>

PayableRows2 ==
    << [document_date |-> Day(-40), amount |-> 80, due_date |-> Day(5),
        beneficiary |-> "A"] >>

ReceivableRows1 ==
    << [document_date |-> Day(-20), amount |-> 70, due_date |-> Day(10),
        company_name |-> "A"] >>

InvoicesRows1 ==
    << [invoice_date |-> Day(-3), customer_name |-> "A", order_code |-> "o1",
        subtotal |-> 90, tax |-> 10, total_amount |-> 100] >>

PerformaRows1 ==
    << [performa_date |-> Day(-7), order_code |-> "o1", customer_name |-> "A",
        amount |-> 100],
       [performa_date |-> Day(-2), order_code |-> "o2", customer_name |-> "B",
        amount |-> 40] >>

Rows1(file_type) ==
    CASE file_type = "Payable" -> PayableRows1
      [] file_type = "Receivable" -> ReceivableRows1
      [] file_type = "Invoices" -> InvoicesRows1
      [] file_type = "Performa" -> PerformaRows1

Tables1 == [k \in FileType |-> Table(k, Rows1(k))]

(* the state after construction: nothing loaded, nothing cached *)
InitWith(src, redis) ==
    /\ source = src
    /\ loaded_data = <<>>
    /\ cache_entries = <<>>
    /\ using_redis = redis
    /\ redis_down = FALSE
    /\ now = 0
    /\ calls = 0
    /\ ret = [op |-> "init"]
    /\ threads = <<>>

----------------------------------------------------------------------------
(* The engine over one cache shared by the data manager and the analyzer,
   with either backend, the clock and a database whose content changes *)

CacheKinds == {"Payable", "Receivable"}

CacheAnalyses == {"Cumulative", "Accounts Aging"}

Init == \E redis \in BOOLEAN : InitWith(Tables1, redis)

Next ==
    \/ \E k \in CacheKinds, a \in CacheAnalyses :
           calls < MaxCalls /\ Analyze(k, a, <<>>)
    \/ \E k \in CacheKinds, f \in BOOLEAN : calls < MaxCalls /\ LoadFile(k, f)
    \/ \E k \in CacheKinds, f \in BOOLEAN : calls < MaxCalls /\ GetDataframe(k, f)
    \/ \E key \in DOMAIN cache_entries : calls < MaxCalls /\ Delete(key)
    \/ calls < MaxCalls /\ Clear
    \/ Tick
    \/ \E rows \in {PayableRows1, PayableRows2} :
           SourceChange("Payable", Table("Payable", rows))
    \/ RedisDown
    \/ RedisUp

Spec == Init /\ [][Next]_vars

----------------------------------------------------------------------------
(* The dispatch of analyze: every kind and analysis, over databases in which
   any table may be unreadable or empty, with keyword arguments of every shape *)

(* the calls one behaviour of the dispatch makes *)
MaxProbes == 1

IntArg(n, text) == [ty |-> "int", v |-> text, n |-> n]

MixedDict == [ty |-> "mixed_dict", v |-> "{1: 0, 'x': 0}"]

KwargsFor(analysis_type) ==
    CASE analysis_type = "Daily Breakdown" ->
           {<<>>, << <<"df", IntArg(1, "1")>> >>, << <<"a", MixedDict>> >>}
      [] analysis_type = "Top Beneficiaries" ->
           {<<>>, << <<"top_n", IntArg(1, "1")>> >>}
      [] analysis_type = "Forecast" ->
           {<<>>, << <<"forecast_days", IntArg(30, "30")>> >>}
      [] OTHER -> {<<>>}

Sources ==
    [FileType -> {"unreadable", "empty", "rows"}]

SourceOf(choice) ==
    [k \in FileType |->
        CASE choice[k] = "unreadable" -> Unreadable
          [] choice[k] = "empty" -> Table(k, <<>>)
          [] choice[k] = "rows" -> Table(k, Rows1(k))]

InitDispatch == \E choice \in Sources : InitWith(SourceOf(choice), FALSE)

NextDispatch ==
    \E k \in FileType, a \in AnalysisType :
        \E kw \in KwargsFor(a) : calls < MaxProbes /\ Analyze(k, a, kw)

SpecDispatch == InitDispatch /\ [][NextDispatch]_vars

----------------------------------------------------------------------------
(* The networked store going down and coming back, with the cache called
   directly as well as through the engine *)

FaultKeys == {DbKey("Payable"), AnalysisKey("Payable", "Cumulative", <<>>)}

InitFault == InitWith(Tables1, TRUE)

NextFault ==
    \/ \E a \in {"Daily Breakdown", "Cumulative"} :
           \E kw \in KwargsFor(a) : calls < MaxCalls /\ Analyze("Payable", a, kw)
    \/ \E f \in BOOLEAN : calls < MaxCalls /\ LoadFile("Payable", f)
    \/ \E key \in FaultKeys : calls < MaxCalls /\ Get(key)
    \/ \E key \in FaultKeys :
           calls < MaxCalls /\ Set(key, ToRecords([cols |-> SchemaColumns("Payable"),
                                                   rows |-> PayableRows2]))
    \/ \E key \in FaultKeys : calls < MaxCalls /\ Delete(key)
    \/ calls < MaxCalls /\ Clear
    \/ \E rows \in {PayableRows1, PayableRows2} :
           SourceChange("Payable", Table("Payable", rows))
    \/ RedisDown
    \/ RedisUp

SpecFault == InitFault /\ [][NextFault]_vars

----------------------------------------------------------------------------
(* Accounts aging over payable and receivable tables of every small shape *)

(* the rows of a table the aging is explored over *)
MaxRows == 2

(* due dates on each side of every bucket boundary, and an unparsable one *)
DueDates == {Day(5), Day(0), Day(-1), Day(-31), Day(-61), Day(-91), BadDate}

PayableRow(due) ==
    [document_date |-> Day(-100), amount |-> 100, due_date |-> due,
     beneficiary |-> "A"]

ReceivableRow(due) ==
    [document_date |-> Day(-100), amount |-> 70, due_date |-> due,
     company_name |-> "B"]

SeqsUpTo(S, n) == UNION {[1..m -> S] : m \in 0..n}

InitAging ==
    \E p \in SeqsUpTo({PayableRow(d) : d \in DueDates}, MaxRows),
       r \in SeqsUpTo({ReceivableRow(d) : d \in DueDates}, 1) :
        InitWith([Tables1 EXCEPT !["Payable"] = Table("Payable", p),
                                 !["Receivable"] = Table("Receivable", r)], FALSE)

NextAging ==
    \E k \in {"Payable", "Receivable"} :
        calls < MaxProbes /\ Analyze(k, "Accounts Aging", <<>>)

SpecAging == InitAging /\ [][NextAging]_vars

----------------------------------------------------------------------------
(* Customer loyalty over tables that lack any of their columns *)

LoyaltyColumns(file_type) ==
    {LoyaltyNameCol(file_type), LoyaltyAmountCol(file_type),
     LoyaltyDateCol(file_type)}

Without(table, dropped) ==
    [ok |-> table.ok,
     cols |-> table.cols \ dropped,
     rows |-> [i \in DOMAIN table.rows |->
                  [c \in DOMAIN table.rows[i] \ dropped |-> table.rows[i][c]]]]

InitLoyalty ==
    \E k \in FileType :
        \E dropped \in SUBSET LoyaltyColumns(k) :
            InitWith([Tables1 EXCEPT ![k] = Without(Tables1[k], dropped)], FALSE)

NextLoyalty ==
    \E k \in FileType : calls < MaxProbes /\ Analyze(k, "Customer Loyalty", <<>>)

SpecLoyalty == InitLoyalty /\ [][NextLoyalty]_vars

----------------------------------------------------------------------------
(* Key derivation over keyword arguments given in either order *)

KeyValues ==
    {IntArg(1, "1"), IntArg(3, "3"),
     [ty |-> "str", v |-> "2024-01-01"], [ty |-> "date", v |-> "2024-01-01"]}

KeyKwargs ==
    {<<>>}
    \cup {<< <<n, v>> >> : n \in {"a", "b"}, v \in KeyValues}
    \cup {<< <<"a", v>>, <<"b", w>> >> : v \in KeyValues, w \in KeyValues}
    \cup {<< <<"b", w>>, <<"a", v>> >> : v \in KeyValues, w \in KeyValues}

(* two calls of get_cache_key with the same prefix *)
DeriveKeys(prefix, first, second) ==
    /\ ret' = [op |-> "get_cache_key", prefix |-> prefix,
               first |-> first, second |-> second,
               key1 |-> get_cache_key(prefix, first),
               key2 |-> get_cache_key(prefix, second)]
    /\ calls' = calls + 1
    /\ UNCHANGED <<threads, source, loaded_data, cache_entries, using_redis, redis_down, now>>

InitKey == InitWith(Tables1, FALSE)

NextKey ==
    \E first \in KeyKwargs, second \in KeyKwargs :
        calls < MaxProbes /\ DeriveKeys(<<"p">>, first, second)

SpecKey == InitKey /\ [][NextKey]_vars

----------------------------------------------------------------------------
(* The properties *)

AnalyzeReturned == ret.op = "analyze" /\ ret.outcome = "returned"

(* the database holds no usable table of the kind *)
PrimaryMissing(file_type) ==
    ~source[file_type].ok \/ source[file_type].rows = <<>>

(* C1: in every accounts-aging result, for each side separately, the five
   bucket sums add up to the side's total and the side's overdue is its total
   minus its "current" bucket sum. *)
C1_BucketSumsEqualTotal ==
    (AnalyzeReturned /\ ret.analysis_type = "Accounts Aging" /\ ~IsNone(ret.data))
    => (ret.data.error = ""
        => LET f == ret.data.fields
           IN  /\ f.payables_current + f.payables_1_30 + f.payables_31_60
                  + f.payables_61_90 + f.payables_90_plus = f.payables_total
               /\ f.payables_overdue = f.payables_total - f.payables_current
               /\ f.receivables_current + f.receivables_1_30 + f.receivables_31_60
                  + f.receivables_61_90 + f.receivables_90_plus
                  = f.receivables_total
               /\ f.receivables_overdue
                  = f.receivables_total - f.receivables_current)

(* C2: a second analyze call with the same kind, analysis and parameters that
   is answered from the cache returns the payload the first call returned,
   with either backend. *)
C2_HitReturnsSamePayload ==
    [][(/\ AnalyzeReturned /\ ~IsNone(ret.data)
        /\ calls' = calls + 1
        /\ ret'.op = "analyze" /\ ret'.outcome = "returned" /\ ret'.hit
        /\ ret'.file_type = ret.file_type
        /\ ret'.analysis_type = ret.analysis_type
        /\ ret'.kwargs = ret.kwargs)
       => ret'.data = ret.data]_vars

(* the entries that hold an unexpired value before and still exist after *)
Kept == {k \in DOMAIN cache_entries \cap DOMAIN cache_entries' :
             cache_entries[k].expires > now}

(* C3 as stated: a key that holds an unexpired value never comes to hold a
   different value; the value changes only after expiry, delete or clear. *)
C3_UnexpiredValueNeverChanges ==
    [][\A k \in Kept : cache_entries'[k].value = cache_entries[k].value]_vars

(* the step is a forced reload of the kind *)
ForcedReload(file_type) ==
    /\ calls' = calls + 1
    /\ ret'.op \in {"load_file", "get_dataframe"}
    /\ ret'.force_reload
    /\ ret'.file_type = file_type

(* C3 as amended: a key that holds an unexpired value comes to hold a
   different value only when a forced reload of a kind rewrites that kind's
   table entry with the table it has just read from the database. *)
C3_OnlyForcedReloadRewrites ==
    [][\A k \in Kept :
          \/ cache_entries'[k].value = cache_entries[k].value
          \/ \E file_type \in FileType :
                /\ k = DbKey(file_type)
                /\ ForcedReload(file_type)
                /\ cache_entries'[k].value
                   = JsonDumps(ToRecords([cols |-> source[file_type].cols,
                                          rows |-> source[file_type].rows]))]_vars

(* a forced reload has just put the changed table under the kind's key while
   an analysis computed from the table as it was is still cached *)
C3_Witness ==
    /\ ret.op \in {"load_file", "get_dataframe"} /\ ret.force_reload
    /\ ret.file_type = "Payable"
    /\ DbKey("Payable") \in DOMAIN cache_entries
    /\ cache_entries[DbKey("Payable")].value.records = PayableRows2
    /\ cache_entries[DbKey("Payable")].expires > now
    /\ AnalysisKey("Payable", "Cumulative", <<>>) \in DOMAIN cache_entries
    /\ cache_entries[AnalysisKey("Payable", "Cumulative", <<>>)].value.fields.total_sum
       = 150

(* C4: analyze never raises to its caller. *)
C4_AnalyzeNeverRaises == ret.op = "analyze" => ret.outcome = "returned"

(* C5: while the cache backend faults, get returns null, set, delete and
   clear return false, and every analyze call returns the result it freshly
   computes from the record store, never a cached one. *)
C5_FaultDegradesToRecompute ==
    [][(using_redis /\ redis_down /\ calls' = calls + 1)
       => /\ ret'.op = "get" => IsNone(ret'.value)
          /\ ret'.op \in {"set", "delete", "clear"} => ~ret'.ok
          /\ ret'.op = "analyze"
             => /\ ret'.outcome = "returned"
                /\ ~ret'.hit
                /\ ret'.data
                   = analyze([loaded |-> loaded_data, entries |-> <<>>],
                             ret'.file_type, ret'.analysis_type,
                             ret'.kwargs).data]_vars

(* the keyword arguments as a mapping from name to value *)
AsMapping(kwargs) ==
    [n \in {kwargs[i][1] : i \in DOMAIN kwargs} |-> ValueOf(kwargs, n)]

(* C6: two parameter sets equal as mappings get the same key whatever the
   order of the keywords, and two that differ in the value of a parameter get
   different keys. *)
C6_KeyTellsParamsApart ==
    ret.op = "get_cache_key"
    => LET m1 == AsMapping(ret.first)
           m2 == AsMapping(ret.second)
       IN  /\ m1 = m2 => ret.key1 = ret.key2
           /\ (DOMAIN m1 = DOMAIN m2 /\ \E n \in DOMAIN m1 : m1[n] # m2[n])
              => ret.key1 # ret.key2

(* a payable or receivable row is due today or later *)
FutureRowExists ==
    \E k \in {"Payable", "Receivable"} :
        /\ ~PrimaryMissing(k)
        /\ \E i \in DOMAIN source[k].rows :
              /\ source[k].rows[i].due_date # BadDate
              /\ jalali_to_gregorian(source[k].rows[i].due_date) >= Today

(* C7: Forecast on a non-empty primary table and an empty cache returns a
   non-null result: the forecast structure when a payable or receivable row is
   due today or later, an error structure otherwise. *)
C7_ForecastReturnsResult ==
    (/\ ret.op = "analyze" /\ ret.analysis_type = "Forecast"
     /\ ~PrimaryMissing(ret.file_type) /\ calls = 1)
    => /\ ret.outcome = "returned"
       /\ ~IsNone(ret.data)
       /\ (ret.data.error = "") = FutureRowExists

(* C8: On-time Payment and Advanced Report return a non-null result whatever
   subset of the payable, invoice and pro-forma tables is missing. *)
C8_CrossKindNeverNull ==
    (AnalyzeReturned /\ ret.analysis_type \in {"On-time Payment", "Advanced Report"})
    => ~IsNone(ret.data)

(* C9: Customer Loyalty on a non-empty table that lacks its name, amount or
   date column returns a non-null error-shaped result. *)
C9_LoyaltyMissingColumnIsError ==
    (/\ ret.op = "analyze" /\ ret.analysis_type = "Customer Loyalty"
     /\ ~PrimaryMissing(ret.file_type)
     /\ ~(LoyaltyColumns(ret.file_type) \subseteq source[ret.file_type].cols))
    => /\ ret.outcome = "returned"
       /\ ~IsNone(ret.data)
       /\ ret.data.error # ""

(* C10: on a cache miss with the primary table missing or empty, analyze
   returns null for every analysis other than On-time Payment and Advanced
   Report; for those two the missing primary table alone does not make the
   result null: null then comes only from the analysis itself, which is
   Advanced Report finding pro-forma rows and no invoice table. *)
C10_MissingPrimaryIsNull ==
    (AnalyzeReturned /\ ~ret.hit /\ PrimaryMissing(ret.file_type))
    => IF ret.analysis_type \in {"On-time Payment", "Advanced Report"}
       THEN IsNone(ret.data)
            => /\ ret.analysis_type = "Advanced Report"
               /\ ~PrimaryMissing("Performa")
               /\ PrimaryMissing("Invoices")
       ELSE IsNone(ret.data)

(* Advanced Report asked for a kind whose table is missing returns a report *)
C10_Witness ==
    /\ AnalyzeReturned /\ ~ret.hit
    /\ ret.analysis_type = "Advanced Report"
    /\ PrimaryMissing(ret.file_type)
    /\ ~IsNone(ret.data)
    /\ ret.data.error = ""

----------------------------------------------------------------------------
(* Cumulative over payable tables of every small shape: positive amounts,
   rows in any order, dates that may not parse *)

CumulativeRows ==
    {[document_date |-> d, amount |-> a, due_date |-> Day(5), beneficiary |-> "A"] :
        d \in {Day(-3), Day(-2), Day(-1), BadDate}, a \in {10, 20}}

InitCumulative ==
    \E p \in SeqsUpTo(CumulativeRows, MaxRows) :
        InitWith([Tables1 EXCEPT !["Payable"] = Table("Payable", p)], FALSE)

NextCumulative == calls < MaxProbes /\ Analyze("Payable", "Cumulative", <<>>)

SpecCumulative == InitCumulative /\ [][NextCumulative]_vars

(* C11: in a Cumulative result over positive amounts the running sums, in
   ascending date order, never decrease and the last one equals total_sum,
   also when some rows have a date that is missing or does not parse. *)
C11_RunningSumEndsAtTotal ==
    (/\ AnalyzeReturned /\ ret.analysis_type = "Cumulative"
     /\ ~IsNone(ret.data))
    => ((ret.data.error = "" /\ ret.data.detail # <<>>)
        => LET rows == ret.data.detail
           IN  /\ \A i \in 1..(Len(rows) - 1) :
                     /\ rows[i].date.day <= rows[i + 1].date.day
                     /\ rows[i].cumulative <= rows[i + 1].cumulative
               /\ rows[Len(rows)].cumulative = ret.data.fields.total_sum)

----------------------------------------------------------------------------
(* On-time Payment over pro-forma and invoice tables of every small shape *)

OnTimePerformaRows ==
    {[performa_date |-> d, order_code |-> o, customer_name |-> "A", amount |-> 100] :
        d \in {Day(-10), BadDate}, o \in {"o1", "o2"}}

OnTimeInvoiceRows ==
    {[invoice_date |-> d, customer_name |-> "A", order_code |-> o, subtotal |-> 90,
      tax |-> 10, total_amount |-> 100] :
        d \in {Day(-9), Day(0), BadDate}, o \in {"o1", "o3"}}

InitOnTime ==
    \E p \in SeqsUpTo(OnTimePerformaRows, MaxRows),
       v \in SeqsUpTo(OnTimeInvoiceRows, MaxRows) :
        InitWith([Tables1 EXCEPT !["Performa"] = Table("Performa", p),
                                 !["Invoices"] = Table("Invoices", v)], FALSE)

NextOnTime ==
    \E k \in {"Performa", "Invoices"} :
        calls < MaxProbes /\ Analyze(k, "On-time Payment", <<>>)

SpecOnTime == InitOnTime /\ [][NextOnTime]_vars

(* the order code is that of a row of the invoice table *)
MatchedInvoice(order_code) ==
    \E i \in DOMAIN source["Invoices"].rows :
        source["Invoices"].rows[i].order_code = order_code

(* C12: On-time Payment keeps every pro-forma row; a joined row is paid if
   and only if its order code matched an invoice row, and on time if and only
   if it matched and the gap in days is at most 7. *)
C12_PaidIffMatched ==
    (/\ AnalyzeReturned /\ ret.analysis_type = "On-time Payment"
     /\ ~IsNone(ret.data))
    => (ret.data.error = ""
        => LET rows == ret.data.detail
           IN  /\ \A i \in DOMAIN source["Performa"].rows :
                     \E j \in DOMAIN rows :
                         rows[j].order_code = source["Performa"].rows[i].order_code
               /\ \A j \in DOMAIN rows :
                     /\ rows[j].is_paid = MatchedInvoice(rows[j].order_code)
                     /\ rows[j].is_on_time
                        = (/\ MatchedInvoice(rows[j].order_code)
                           /\ rows[j].gap_days # PyNone
                           /\ rows[j].gap_days <= 7))

----------------------------------------------------------------------------
(* the table of a kind as the database holds it, None when there is none *)
SourceFrame(file_type) ==
    IF PrimaryMissing(file_type)
    THEN None
    ELSE [cols |-> source[file_type].cols, rows |-> source[file_type].rows]

(* C13: in every month of an Integrated Trend result each series equals the
   monthly sum of its source: invoices by invoice date, pro-formas by
   pro-forma date, payables and receivables by due date, whichever tables
   are present. *)
C13_TrendColumnsAreMonthlySums ==
    (/\ AnalyzeReturned /\ ret.analysis_type = "Integrated Trend"
     /\ ~IsNone(ret.data))
    => (ret.data.error = ""
        => \A i \in DOMAIN ret.data.rollup :
              LET row == ret.data.rollup[i]
              IN  /\ row.sales
                     = MonthSum(Dated(SourceFrame("Invoices"), "invoice_date",
                                      "total_amount"), row.month)
                  /\ row.performa
                     = MonthSum(Dated(SourceFrame("Performa"), "performa_date",
                                      "amount"), row.month)
                  /\ row.payable
                     = MonthSum(Dated(SourceFrame("Payable"), "due_date",
                                      "amount"), row.month)
                  /\ row.receivable
                     = MonthSum(Dated(SourceFrame("Receivable"), "due_date",
                                      "amount"), row.month))

-----------------------------------------------------------------------------
(* Cash Flow over payable and receivable tables of every content and row
   order, next to the invoice and pro-forma tables of Tables1 *)

CashFlowPayableRows ==
    {[document_date |-> Day(-100), amount |-> a, due_date |-> d,
      beneficiary |-> "A"] : d \in {Day(-3), Day(0), BadDate}, a \in {10, 20}}

CashFlowReceivableRows ==
    {[document_date |-> Day(-100), amount |-> 70, due_date |-> d,
      company_name |-> "B"] : d \in {Day(-3), Day(0)}}

InitCashFlow ==
    \E p \in SeqsUpTo(CashFlowPayableRows, MaxRows),
       r \in SeqsUpTo(CashFlowReceivableRows, 1) :
        InitWith([Tables1 EXCEPT !["Payable"] = Table("Payable", p),
                                 !["Receivable"] = Table("Receivable", r)], FALSE)

NextCashFlow ==
    \E k \in {"Payable", "Receivable"} :
        calls < MaxProbes /\ Analyze(k, "Cash Flow", <<>>)

SpecCashFlow == InitCashFlow /\ [][NextCashFlow]_vars

(* the signed amounts of one kind's rows dated on or before day, summed over
   the rows of the database in whatever order they are *)
SignedSum(file_type, date_col, amount_col, sign, day) ==
    LET f == SourceFrame(file_type)
        Term(r) ==
            LET g == jalali_to_gregorian(r[date_col])
            IN  IF g # NaT /\ r[amount_col] # NaN /\ g <= day
                THEN sign * r[amount_col]
                ELSE 0
    IN  IF IsNone(f) THEN 0 ELSE SumSeq([i \in DOMAIN f.rows |-> Term(f.rows[i])])

SignedUpTo(day) ==
    SignedSum("Payable", "due_date", "amount", -1, day)
    + SignedSum("Receivable", "due_date", "amount", 1, day)
    + SignedSum("Invoices", "invoice_date", "total_amount", 1, day)
    + SignedSum("Performa", "performa_date", "amount", 1, day)

(* C14: in a Cash Flow result the cumulative value of every day of the
   per-day rollup is the sum of the signed amounts dated on or before that
   day, payables negated and the other kinds positive, whatever the order of
   the rows; the current position is the sum of all signed amounts and equals
   the net cash flow, which is total income minus total outcome. *)
C14_CashFlowBalances ==
    (/\ AnalyzeReturned /\ ret.analysis_type = "Cash Flow"
     /\ ~IsNone(ret.data))
    => (ret.data.error = ""
        => /\ \A i \in DOMAIN ret.data.rollup :
                 ret.data.rollup[i].cumulative
                 = SignedUpTo(ret.data.rollup[i].date.day)
           /\ ret.data.fields.current_position = SignedUpTo(Today + 1000)
           /\ ret.data.fields.current_position = ret.data.fields.net_cash_flow
           /\ ret.data.fields.net_cash_flow
              = ret.data.fields.total_income - ret.data.fields.total_outcome)

(* a Cash Flow result over two payables in descending date order, one of
   them on the day of a receivable, whose rollup has several days *)
C14_Witness ==
    /\ AnalyzeReturned /\ ret.analysis_type = "Cash Flow"
    /\ ~IsNone(ret.data) /\ ret.data.error = ""
    /\ Len(ret.data.rollup) >= 3
    /\ Len(source["Payable"].rows) = 2
    /\ source["Payable"].rows[1].due_date = Day(0)
    /\ source["Payable"].rows[2].due_date = Day(-3)
    /\ Len(source["Receivable"].rows) = 1
    /\ source["Receivable"].rows[1].due_date = Day(-3)
    /\ ret.data.fields.total_outcome > 0

-----------------------------------------------------------------------------
(* a step that is a call of get_dataframe *)
GetDataframeStep == calls' = calls + 1 /\ ret'.op = "get_dataframe"

(* C15: get_dataframe(kind) without force_reload returns the in-memory table
   of a kind that is loaded and leaves the cache and the in-memory tables as
   they are; with force_reload it reads the database again and, when that
   yields a table, the in-memory table and the cache entry of the kind are
   both that table. *)
C15_GetTableAndForcedReload ==
    [][GetDataframeStep
       => LET k == ret'.file_type
          IN  /\ (~ret'.force_reload /\ k \in DOMAIN loaded_data)
                 => /\ ret'.df = loaded_data[k]
                    /\ UNCHANGED <<loaded_data, cache_entries>>
              /\ ret'.force_reload
                 => /\ ret'.df = (IF Usable(SourceFrame(k))
                                  THEN SourceFrame(k) ELSE None)
                    /\ ~IsNone(ret'.df)
                       => /\ loaded_data'[k] = ret'.df
                          /\ DbKey(k) \in DOMAIN cache_entries'
                          /\ cache_entries'[DbKey(k)].value = ToRecords(ret'.df)]_vars

(* C15, amended: as above, except that the cache entry of the kind is the
   newly read table only when the cache backend takes the write; while the
   backend is unreachable a forced reload leaves the cache as it was. *)
C15_ForcedReloadCachesWhenReachable ==
    [][GetDataframeStep
       => LET k == ret'.file_type
          IN  /\ (~ret'.force_reload /\ k \in DOMAIN loaded_data)
                 => /\ ret'.df = loaded_data[k]
                    /\ UNCHANGED <<loaded_data, cache_entries>>
              /\ ret'.force_reload
                 => /\ ret'.df = (IF Usable(SourceFrame(k))
                                  THEN SourceFrame(k) ELSE None)
                    /\ ~IsNone(ret'.df)
                       => /\ loaded_data'[k] = ret'.df
                          /\ IF using_redis /\ redis_down
                             THEN cache_entries' = cache_entries
                             ELSE /\ DbKey(k) \in DOMAIN cache_entries'
                                  /\ cache_entries'[DbKey(k)].value
                                     = ToRecords(ret'.df)]_vars

(* a forced get_dataframe has read the changed payable table, and both the
   in-memory table and the cache entry are that table *)
C15_Witness ==
    /\ ret.op = "get_dataframe" /\ ret.force_reload
    /\ ret.file_type = "Payable" /\ ~IsNone(ret.df)
    /\ ret.df.rows = PayableRows2
    /\ calls >= 2
    /\ loaded_data["Payable"] = ret.df
    /\ DbKey("Payable") \in DOMAIN cache_entries
    /\ cache_entries[DbKey("Payable")].value = ToRecords(ret.df)

-----------------------------------------------------------------------------
(* Loading, one kind or all of them, over databases in which any table may be
   unreadable or empty and may become unreadable after it was cached *)

InitLoad ==
    \E choice \in Sources, redis \in BOOLEAN : InitWith(SourceOf(choice), redis)

NextLoad ==
    \/ \E k \in CacheKinds, f \in BOOLEAN : calls < MaxCalls /\ LoadFile(k, f)
    \/ \E f \in BOOLEAN : calls < MaxCalls /\ LoadAllFiles(f)
    \/ \E k \in CacheKinds : SourceChange(k, Unreadable)
    \/ RedisDown
    \/ RedisUp

SpecLoad == InitLoad /\ [][NextLoad]_vars

(* a step that is a call of load_file, of load_all_files *)
LoadFileStep == calls' = calls + 1 /\ ret'.op = "load_file"

LoadAllFilesStep == calls' = calls + 1 /\ ret'.op = "load_all_files"

(* the call has to read the database: a reload is forced or the cache has no
   table of the kind *)
ReadsDatabase(file_type, force_reload) ==
    force_reload \/ IsNone(CacheGet(cache_entries, DbKey(file_type)).value)

(* the kinds for which load_file, called now, returns a table *)
LoadedKinds(force_reload) ==
    {k \in FileType : ~IsNone(load_file(Store, k, force_reload).df)}

(* C16: load_file returns None, leaving the in-memory tables alone, when it
   has to read a table that is missing, unreadable or without rows; the keys
   of the mapping load_all_files returns are exactly the kinds for which
   load_file returns a table, each with that table. *)
C16_LoadFailsToNone ==
    [][/\ (/\ LoadFileStep /\ PrimaryMissing(ret'.file_type)
           /\ ReadsDatabase(ret'.file_type, ret'.force_reload))
          => IsNone(ret'.df) /\ loaded_data' = loaded_data
       /\ LoadAllFilesStep
          => /\ DOMAIN ret'.results = LoadedKinds(ret'.force_reload)
             /\ \A k \in DOMAIN ret'.results :
                   ret'.results[k] = load_file(Store, k, ret'.force_reload).df]_vars

(* load_all_files has returned some kinds and left out others, one of them
   left out because its table could not be read *)
C16_Witness ==
    /\ ret.op = "load_all_files"
    /\ DOMAIN ret.results # {} /\ DOMAIN ret.results # FileType
    /\ \E k \in FileType \ DOMAIN ret.results : ~source[k].ok
    /\ \E k \in FileType \ DOMAIN ret.results : source[k].ok

-----------------------------------------------------------------------------
(* The Excel generation: loads, forced reloads and get_dataframe calls over
   sheets of every content *)

ExcelLoadFile(file_type, force_reload) ==
    LET r == excel_load_file(Store, file_type, force_reload)
    IN  /\ loaded_data' = r.loaded
        /\ cache_entries' = r.entries
        /\ ret' = [op |-> "excel_load_file", file_type |-> file_type,
                   force_reload |-> force_reload, df |-> r.df]
        /\ calls' = calls + 1
        /\ UNCHANGED <<threads, source, using_redis, redis_down, now>>

ExcelGetDataframe(file_type, force_reload) ==
    LET r == excel_get_dataframe(Store, file_type, force_reload)
    IN  /\ loaded_data' = r.loaded
        /\ cache_entries' = r.entries
        /\ ret' = [op |-> "excel_get_dataframe", file_type |-> file_type,
                   force_reload |-> force_reload, df |-> r.df]
        /\ calls' = calls + 1
        /\ UNCHANGED <<threads, source, using_redis, redis_down, now>>

(* the rows of the payable sheet: the row-number column, the creditor amount
   in rials and the due date, any cell of which may be blank *)
SheetRows ==
    {("Unnamed: 0" :> 1) @@ [bestankar |-> a, tarikh_sarresid |-> d] :
        a \in {1000, 250, NaN}, d \in {Day(5), NaN}}

Sheet(rows) ==
    [ok |-> TRUE, cols |-> {"Unnamed: 0", "bestankar", "tarikh_sarresid"},
     rows |-> rows]

InitExcel ==
    \E rows \in SeqsUpTo(SheetRows, MaxRows), redis \in BOOLEAN :
        InitWith([k \in FileType |->
                     IF k = "Payable" THEN Sheet(rows) ELSE Unreadable], redis)

NextExcel ==
    \/ \E f \in BOOLEAN : calls < MaxCalls /\ ExcelLoadFile("Payable", f)
    \/ \E f \in BOOLEAN : calls < MaxCalls /\ ExcelGetDataframe("Payable", f)
    \/ Tick
    \/ RedisDown
    \/ RedisUp

SpecExcel == InitExcel /\ [][NextExcel]_vars

(* a call of the Excel generation has returned a table *)
ExcelReturned ==
    ret.op \in {"excel_load_file", "excel_get_dataframe"} /\ ~IsNone(ret.df)

(* the rows of the sheet that have some cell besides the row number, in the
   order of the sheet *)
SheetKept(file_type) ==
    LET Has(row) == \E c \in DOMAIN row \ {"Unnamed: 0"} : row[c] # NaN
    IN  SelectSeq(source[file_type].rows, Has)

(* C17: whatever loads, forced reloads, cache-hit loads and get_dataframe
   calls came before, every amount of the table a call returns is the amount
   of the sheet divided by 10, once: row for row, over the rows of the sheet
   that are not blank. *)
C17_AmountsScaledOnce ==
    ExcelReturned
    => LET raw == SheetKept(ret.file_type)
       IN  /\ Len(ret.df.rows) = Len(raw)
           /\ \A i \in DOMAIN raw :
                 \A c \in amount_cols \cap DOMAIN raw[i] :
                    raw[i][c] # NaN
                    => ret.df.rows[i][c] = [n |-> raw[i][c], d |-> 10]

(* the third call is a load answered from the cache, and the table it
   returns has an amount *)
C17_Witness ==
    /\ ExcelReturned /\ calls = MaxCalls
    /\ ret.op = "excel_load_file" /\ ~ret.force_reload
    /\ FileKey("Payable") \in DOMAIN cache_entries
    /\ cache_entries[FileKey("Payable")].expires < now + TTL
    /\ ret.df.rows # <<>>
    /\ ret.df.rows[1].bestankar = [n |-> 1000, d |-> 10]

-----------------------------------------------------------------------------
(* get_all_analyses for every kind, over databases in which any table may be
   unreadable or empty, the later calls finding the cache filled *)

NextAll == \E k \in FileType : calls < MaxCalls /\ GetAllAnalyses(k)

SpecAll == InitDispatch /\ [][NextAll]_vars

(* a step that is a call of get_all_analyses *)
GetAllAnalysesStep == calls' = calls + 1 /\ ret'.op = "get_all_analyses"

(* analyze(kind, A), called now without keyword arguments, returns a result *)
AnalyzeGives(file_type, analysis_type) ==
    LET r == analyze(Store, file_type, analysis_type, <<>>)
    IN  r.outcome = "returned" /\ ~IsNone(r.data)

(* C18: the mapping get_all_analyses(kind) returns has an entry for an
   analysis exactly when the analysis is neither On-time Payment nor Advanced
   Report and analyze(kind, analysis) returns a result; it never has an entry
   for one of those two. *)
C18_AllAnalysesKeys ==
    [][GetAllAnalysesStep
       => /\ ret'.outcome = "returned"
          /\ \A a \in AnalysisType :
                a \in DOMAIN ret'.results
                <=> (/\ a \notin {"On-time Payment", "Advanced Report"}
                     /\ AnalyzeGives(ret'.file_type, a))]_vars

(* get_all_analyses of a kind has returned some analyses and left out others
   that gave no result, while both cross-kind analyses would have given one *)
C18_Witness ==
    /\ ret.op = "get_all_analyses" /\ ret.outcome = "returned"
    /\ "Cumulative" \in DOMAIN ret.results
    /\ "Cash Flow" \in DOMAIN ret.results
    /\ \E a \in AnalysisType \ CrossFile : a \notin DOMAIN ret.results
    /\ AnalyzeGives(ret.file_type, "On-time Payment")
    /\ AnalyzeGives(ret.file_type, "Advanced Report")

-----------------------------------------------------------------------------
(* analyzer.py: the calendar converters, value by value.  A text is the
   sequence of its characters; a Python value is a record with its type. *)

Str(chars) == [ty |-> "str", chars |-> chars]

NoneValue == [ty |-> "NoneType"]

(* datetime.date(y, m, d) *)
GDate(y, m, d) == [ty |-> "date", y |-> y, m |-> m, d |-> d]

(* datetime.datetime and pd.Timestamp: a date with a time of day *)
GDateTime(ty, y, m, d, clock) == [ty |-> ty, y |-> y, m |-> m, d |-> d, clock |-> clock]

DigitChars == <<"0", "1", "2", "3", "4", "5", "6", "7", "8", "9">>

IsDigit(ch) == \E i \in DOMAIN DigitChars : DigitChars[i] = ch

DigitOf(ch) == (CHOOSE i \in DOMAIN DigitChars : DigitChars[i] = ch) - 1

(* str.split(sep): the pieces between the separators, empty ones included *)
RECURSIVE Split(_, _)
Split(chars, sep) ==
    IF \A i \in DOMAIN chars : chars[i] # sep
    THEN <<chars>>
    ELSE LET i == CHOOSE j \in DOMAIN chars :
                      chars[j] = sep /\ \A k \in 1..(j - 1) : chars[k] # sep
         IN  <<SubSeq(chars, 1, i - 1)>> \o Split(SubSeq(chars, i + 1, Len(chars)), sep)

(* str.strip() *)
RECURSIVE Strip(_)
Strip(chars) ==
    IF chars = <<>> THEN <<>>
    ELSE IF Head(chars) = " " THEN Strip(Tail(chars))
    ELSE IF chars[Len(chars)] = " " THEN Strip(SubSeq(chars, 1, Len(chars) - 1))
    ELSE chars

(* int(text) raises ValueError unless the text, stripped, is a decimal numeral *)
IsDecimal(chars) ==
    Strip(chars) # <<>> /\ \A i \in DOMAIN Strip(chars) : IsDigit(Strip(chars)[i])

RECURSIVE DecimalValue(_)
DecimalValue(digits) ==
    IF digits = <<>> THEN 0
    ELSE 10 * DecimalValue(SubSeq(digits, 1, Len(digits) - 1))
         + DigitOf(digits[Len(digits)])

int(chars) == DecimalValue(Strip(chars))

(* "%0<width>d" % n *)
RECURSIVE Decimal(_)
Decimal(n) ==
    IF n < 10 THEN <<DigitChars[n + 1]>>
    ELSE Decimal(n \div 10) \o <<DigitChars[(n % 10) + 1]>>

RECURSIVE ZeroPad(_, _)
ZeroPad(digits, width) ==
    IF Len(digits) >= width THEN digits ELSE ZeroPad(<<"0">> \o digits, width)

(* jdatetime: the lengths of the months and the leap years of the 33-year
   cycle *)
j_days_in_month == <<31, 31, 31, 31, 31, 31, 30, 30, 30, 30, 30, 29>>

g_days_in_month == <<31, 28, 31, 30, 31, 30, 31, 31, 30, 31, 30, 31>>

isleap(year) == (year % 33) \in {1, 5, 9, 13, 17, 22, 26, 30}

(* jdatetime.date(jy, jm, jd) raises ValueError unless the date exists *)
JalaliExists(jy, jm, jd) ==
    /\ jy \in 1..9377
    /\ jm \in 1..12
    /\ jd >= 1
    /\ jd <= (IF jm = 12 /\ isleap(jy) THEN 30 ELSE j_days_in_month[jm])

(* the first n months of a table of month lengths *)
DaysBefore(months, n) == SumSeq(SubSeq(months, 1, n))

(* the month and day of the day_no-th day (from 0) of a Gregorian year *)
RECURSIVE GMonthDay(_, _, _)
GMonthDay(day_no, i, leap) ==
    IF day_no >= g_days_in_month[i] + (IF i = 2 THEN leap ELSE 0)
    THEN GMonthDay(day_no - (g_days_in_month[i] + (IF i = 2 THEN leap ELSE 0)),
                   i + 1, leap)
    ELSE [m |-> i, d |-> day_no + 1]

(* the month and day of the day_no-th day (from 0) of a Jalali year *)
RECURSIVE JMonthDay(_, _)
JMonthDay(day_no, i) ==
    IF i <= 11 /\ day_no >= j_days_in_month[i]
    THEN JMonthDay(day_no - j_days_in_month[i], i + 1)
    ELSE [m |-> i, d |-> day_no + 1]

(* jdatetime.date.togregorian: the days since 1600-01-01, then the year by
   cycles of 400, 100 and 4 years, then the month *)
GFromYearDay(gyear, day_no, leap) ==
    GDate(gyear, GMonthDay(day_no, 1, leap).m, GMonthDay(day_no, 1, leap).d)

GFourYears(gyear, day_no, leap) ==
    IF day_no % 1461 >= 366
    THEN GFromYearDay(gyear + 4 * (day_no \div 1461)
                            + ((day_no % 1461) - 1) \div 365,
                      ((day_no % 1461) - 1) % 365, 0)
    ELSE GFromYearDay(gyear + 4 * (day_no \div 1461), day_no % 1461, leap)

GCentury(gyear, day_no) ==
    IF day_no >= 36525
    THEN IF (day_no - 1) % 36524 >= 365
         THEN GFourYears(gyear + 100 * ((day_no - 1) \div 36524),
                         ((day_no - 1) % 36524) + 1, 1)
         ELSE GFourYears(gyear + 100 * ((day_no - 1) \div 36524),
                         (day_no - 1) % 36524, 0)
    ELSE GFourYears(gyear, day_no, 1)

j_day_no(jy, jm, jd) ==
    365 * (jy - 979) + ((jy - 979) \div 33) * 8 + (((jy - 979) % 33) + 3) \div 4
    + DaysBefore(j_days_in_month, jm - 1) + (jd - 1)

togregorian(jy, jm, jd) ==
    GCentury(1600 + 400 * ((j_day_no(jy, jm, jd) + 79) \div 146097),
             (j_day_no(jy, jm, jd) + 79) % 146097)

(* jdatetime.date.fromgregorian: the days since 1600-01-01, then the year by
   cycles of 33 and 4 years, then the month *)
g_day_no(gy, gm, gd) ==
    365 * (gy - 1600) + (gy - 1600 + 3) \div 4 - (gy - 1600 + 99) \div 100
    + (gy - 1600 + 399) \div 400
    + DaysBefore(g_days_in_month, gm - 1)
    + (IF /\ gm > 2
          /\ \/ (gy - 1600) % 4 = 0 /\ (gy - 1600) % 100 # 0
             \/ (gy - 1600) % 400 = 0
       THEN 1 ELSE 0)
    + (gd - 1)

JFromYearDay(jyear, day_no) ==
    [y |-> jyear, m |-> JMonthDay(day_no, 1).m, d |-> JMonthDay(day_no, 1).d]

JFourYears(jyear, day_no) ==
    IF day_no % 1461 >= 366
    THEN JFromYearDay(jyear + 4 * (day_no \div 1461)
                            + ((day_no % 1461) - 1) \div 365,
                      ((day_no % 1461) - 1) % 365)
    ELSE JFromYearDay(jyear + 4 * (day_no \div 1461), day_no % 1461)

fromgregorian(gy, gm, gd) ==
    JFourYears(979 + 33 * ((g_day_no(gy, gm, gd) - 79) \div 12053),
               (g_day_no(gy, gm, gd) - 79) % 12053)

(* strftime without the leading zeros *)
strftime_Unpadded(jdate) ==
    Decimal(jdate.y) \o <<"/">> \o Decimal(jdate.m) \o <<"/">> \o Decimal(jdate.d)

(* jdatetime.date.strftime("%Y/%m/%d") *)
strftime(jdate) ==
    ZeroPad(Decimal(jdate.y), 4) \o <<"/">> \o ZeroPad(Decimal(jdate.m), 2)
    \o <<"/">> \o ZeroPad(Decimal(jdate.d), 2)

(* hasattr(value, "date"): a datetime and a Timestamp have the method, a
   date has not *)
HasDateMethod(value) == value.ty \in {"datetime", "Timestamp"}

(* lines 47-54 on the three pieces of the date part *)
FromParts(parts) ==
    IF Len(parts) # 3
    THEN NoneValue
    ELSE IF \E i \in 1..3 : ~IsDecimal(parts[i])
    THEN NoneValue  \* ValueError of int(), caught at line 55
    ELSE IF ~JalaliExists(int(parts[1]), int(parts[2]), int(parts[3]))
    THEN NoneValue  \* ValueError of jdatetime.date, caught at line 55
    ELSE togregorian(int(parts[1]), int(parts[2]), int(parts[3]))

(* _jalali_to_gregorian of a value of any type *)
_jalali_to_gregorian(value) ==
    IF value.ty = "NoneType" \/ (value.ty = "str" /\ value.chars = <<>>)
    THEN NoneValue
    ELSE IF HasDateMethod(value)
    THEN GDate(value.y, value.m, value.d)
    ELSE IF value.ty = "str"
    THEN FromParts(Split(Strip(Split(value.chars, " ")[1]), "/"))
    ELSE NoneValue

(* _to_jalali of a value of any type; the text of str(value) when the
   conversion raises *)
_to_jalali(date_obj) ==
    IF date_obj.ty = "NoneType"
    THEN Str(<<>>)
    ELSE IF date_obj.ty \in {"date", "datetime", "Timestamp"}
    THEN Str(strftime(fromgregorian(date_obj.y, date_obj.m, date_obj.d)))
    ELSE date_obj

-----------------------------------------------------------------------------
(* The calendar converters applied to values of every type: the texts of all
   days, existing or not, of the years of the window, other texts, Gregorian
   values and None *)

(* the years of the window before 1405 *)
MaxYears == 6

JalaliYears == (1405 - MaxYears)..1405

(* the text YYYY/MM/DD of a day *)
DateText(y, m, d) ==
    ZeroPad(Decimal(y), 4) \o <<"/">> \o ZeroPad(Decimal(m), 2) \o <<"/">>
    \o ZeroPad(Decimal(d), 2)

DateTexts == {Str(DateText(y, m, d)) : y \in JalaliYears, m \in 1..12, d \in 1..31}

OtherTexts ==
    {Str(<<>>),
     Str(<<"1", "4", "0", "4", "/", "1", "/", "5">>),
     Str(DateText(1404, 1, 5) \o <<" ", "1", "0", ":", "3", "0">>),
     Str(<<" ">> \o DateText(1404, 1, 5)),
     Str(<<"1", "4", "0", "4", "-", "0", "1", "-", "0", "5">>),
     Str(<<"1", "4", "0", "4", "/", "0", "1">>),
     Str(<<"1", "4", "0", "4", "/", "x", "/", "0", "5">>)}

GregorianValues ==
    {GDate(2025, 3, 21), GDate(2024, 2, 29), GDate(2026, 11, 4),
     GDateTime("datetime", 2025, 3, 21, "10:30"),
     GDateTime("datetime", 2024, 2, 29, "00:00"),
     GDateTime("Timestamp", 2026, 11, 4, "00:00")}

InitCalendar ==
    /\ source = Tables1
    /\ loaded_data = <<>>
    /\ cache_entries = <<>>
    /\ using_redis = FALSE
    /\ redis_down = FALSE
    /\ now = 0
    /\ calls = 0
    /\ threads = <<>>
    /\ \E value \in DateTexts \cup OtherTexts \cup GregorianValues \cup {NoneValue} :
          ret = [op |-> "input", value |-> value]

Converted(op, value, gregorian, result) ==
    /\ ret.op = "input"
    /\ ret' = [op |-> op, value |-> value, gregorian |-> gregorian,
               result |-> result]
    /\ calls' = calls + 1
    /\ UNCHANGED <<threads, source, loaded_data, cache_entries, using_redis, redis_down, now>>

ToGregorian ==
    Converted("_jalali_to_gregorian", ret.value, _jalali_to_gregorian(ret.value),
              _jalali_to_gregorian(ret.value))

ToJalali ==
    Converted("_to_jalali", ret.value, ret.value, _to_jalali(ret.value))

RoundTrip ==
    Converted("round_trip", ret.value, _jalali_to_gregorian(ret.value),
              _to_jalali(_jalali_to_gregorian(ret.value)))

NextCalendar == ToGregorian \/ ToJalali \/ RoundTrip

SpecCalendar == InitCalendar /\ [][NextCalendar]_vars

(* C19: _jalali_to_gregorian of a value that is a Gregorian date already, a
   date or a date with a time, is the date of that same day and not None. *)
C19_GregorianValuePassesThrough ==
    (ret.op = "_jalali_to_gregorian"
     /\ ret.value.ty \in {"date", "datetime", "Timestamp"})
    => ret.result = GDate(ret.value.y, ret.value.m, ret.value.d)

(* the text is YYYY/MM/DD of a day that exists in the local calendar *)
ValidDateText(value) ==
    /\ value.ty = "str"
    /\ \E y \in JalaliYears, m \in 1..12, d \in 1..31 :
          JalaliExists(y, m, d) /\ value.chars = DateText(y, m, d)

(* C20: for the text d of a day that exists in the local calendar, written
   YYYY/MM/DD, _to_jalali(_jalali_to_gregorian(d)) is d. *)
C20_RoundTrip ==
    (ret.op = "round_trip" /\ ValidDateText(ret.value)) => ret.result = ret.value

(* the last day of the leap year 1403 went to 2025-03-20 and came back *)
C20_Witness ==
    /\ ret.op = "round_trip"
    /\ ret.value = Str(DateText(1403, 12, 30))
    /\ ret.gregorian = GDate(2025, 3, 20)
    /\ ret.result = ret.value

-----------------------------------------------------------------------------
(* data_manager.py under concurrent callers: get_dataframe and load_file one
   statement at a time.  A caller is at a position pc of its call, with the
   table it holds in its local df and, once it has returned, the table it
   obtained. *)

(* the callers, and the calls they enter in one behaviour *)
MaxThreads == 2

MaxEntered == 2

Threads == 1..MaxThreads

Idle == [pc |-> "idle"]

Running(t) == threads[t].pc \notin {"idle", "done"}

At(t, pc) == threads[t].pc = pc

Goto(t, pc, df) == threads' = [threads EXCEPT ![t].pc = pc, ![t].df = df]

Return(t, df) ==
    threads' = [threads EXCEPT ![t].pc = "done", ![t].df = df, ![t].obtained = df]

(* a table replaced row by row in place: after the first row is written the
   rest of the rows are still those of the table before *)
StoreTable_RowByRow(loaded, file_type, df) ==
    IF file_type \in DOMAIN loaded /\ loaded[file_type].rows # <<>>
    THEN Put(loaded, file_type,
             [cols |-> df.cols,
              rows |-> <<df.rows[1]>> \o Tail(loaded[file_type].rows)])
    ELSE Put(loaded, file_type, df)

(* self._loaded_data[file_type] = df *)
StoreTable(loaded, file_type, df) == Put(loaded, file_type, df)

(* a caller enters get_dataframe or load_file *)
Call(t, op, file_type, force_reload) ==
    /\ ~Running(t)
    /\ threads' = [threads EXCEPT ![t] =
           [pc |-> IF op = "get_dataframe" THEN "gd_check" ELSE "lf_start",
            op |-> op, file_type |-> file_type, force_reload |-> force_reload,
            df |-> None, obtained |-> None]]
    /\ calls' = calls + 1
    /\ UNCHANGED <<source, loaded_data, cache_entries, using_redis, redis_down, now,
                   ret>>

(* get_dataframe line 198: the test of the in-memory tables *)
GdCheck(t) ==
    /\ At(t, "gd_check")
    /\ IF threads[t].file_type \in DOMAIN loaded_data /\ ~threads[t].force_reload
       THEN Goto(t, "gd_read", None)
       ELSE Goto(t, "lf_start", None)
    /\ UNCHANGED <<source, loaded_data, cache_entries, using_redis, redis_down, now,
                   calls, ret>>

(* get_dataframe line 199: the in-memory table is returned *)
GdRead(t) ==
    /\ At(t, "gd_read")
    /\ Return(t, loaded_data[threads[t].file_type])
    /\ UNCHANGED <<source, loaded_data, cache_entries, using_redis, redis_down, now,
                   calls, ret>>

(* load_file lines 93-98: the cache lookup, and the table built from a hit *)
LfStart(t) ==
    LET got == CacheGet(cache_entries, DbKey(threads[t].file_type))
    IN  /\ At(t, "lf_start")
        /\ IF threads[t].force_reload
           THEN Goto(t, "lf_read", None) /\ UNCHANGED cache_entries
           ELSE /\ cache_entries' = got.entries
                /\ IF ~IsNone(got.value)
                   THEN Goto(t, "lf_hit", FromRecords(got.value))
                   ELSE Goto(t, "lf_read", None)
        /\ UNCHANGED <<source, loaded_data, using_redis, redis_down, now, calls, ret>>

(* load_file lines 99-100: the table of the hit is kept and returned *)
LfHit(t) ==
    /\ At(t, "lf_hit")
    /\ loaded_data' = StoreTable(loaded_data, threads[t].file_type, threads[t].df)
    /\ Return(t, threads[t].df)
    /\ UNCHANGED <<source, cache_entries, using_redis, redis_down, now, calls, ret>>

(* load_file lines 108-117: the query reads the table as it is now *)
LfRead(t) ==
    LET k == threads[t].file_type
        df == [cols |-> source[k].cols, rows |-> source[k].rows]
    IN  /\ At(t, "lf_read")
        /\ IF ~source[k].ok \/ Empty(df)
           THEN Return(t, None)
           ELSE Goto(t, "lf_cache", df)
        /\ UNCHANGED <<source, loaded_data, cache_entries, using_redis, redis_down,
                       now, calls, ret>>

(* load_file line 128: the rows are written to the cache *)
LfCache(t) ==
    /\ At(t, "lf_cache")
    /\ cache_entries' = CacheSet(cache_entries, DbKey(threads[t].file_type),
                                 ToRecords(threads[t].df)).entries
    /\ Goto(t, "lf_store", threads[t].df)
    /\ UNCHANGED <<source, loaded_data, using_redis, redis_down, now, calls, ret>>

(* load_file lines 129-131: the table is kept and returned *)
LfStore(t) ==
    /\ At(t, "lf_store")
    /\ loaded_data' = StoreTable(loaded_data, threads[t].file_type, threads[t].df)
    /\ Return(t, threads[t].df)
    /\ UNCHANGED <<source, cache_entries, using_redis, redis_down, now, calls, ret>>

(* the database changes under the callers *)
DatabaseChange(file_type, table) ==
    /\ source[file_type] # table
    /\ source' = [source EXCEPT ![file_type] = table]
    /\ UNCHANGED <<loaded_data, cache_entries, using_redis, redis_down, now, calls,
                   ret, threads>>

InitThreads ==
    /\ source = Tables1
    /\ loaded_data = <<>>
    /\ cache_entries = <<>>
    /\ using_redis = FALSE
    /\ redis_down = FALSE
    /\ now = 0
    /\ calls = 0
    /\ ret = [op |-> "init"]
    /\ threads = [t \in Threads |-> Idle]

NextThreads ==
    \/ \E t \in Threads, op \in {"get_dataframe", "load_file"}, k \in CacheKinds,
          f \in BOOLEAN : calls < MaxEntered /\ Call(t, op, k, f)
    \/ \E t \in Threads : GdCheck(t)
    \/ \E t \in Threads : GdRead(t)
    \/ \E t \in Threads : LfStart(t)
    \/ \E t \in Threads : LfHit(t)
    \/ \E t \in Threads : LfRead(t)
    \/ \E t \in Threads : LfCache(t)
    \/ \E t \in Threads : LfStore(t)
    \/ \E rows \in {PayableRows1, PayableRows2} :
           DatabaseChange("Payable", Table("Payable", rows))

SpecThreads == InitThreads /\ [][NextThreads]_vars

(* the contents the database table of a kind has at one time or another *)
Versions(file_type) ==
    IF file_type = "Payable" THEN {PayableRows1, PayableRows2}
    ELSE {Rows1(file_type)}

(* the in-memory table and the cache entry of a kind are what they were *)
KindUntouched(file_type) ==
    /\ (file_type \in DOMAIN loaded_data') = (file_type \in DOMAIN loaded_data)
    /\ file_type \in DOMAIN loaded_data
       => loaded_data'[file_type] = loaded_data[file_type]
    /\ (DbKey(file_type) \in DOMAIN cache_entries')
       = (DbKey(file_type) \in DOMAIN cache_entries)
    /\ DbKey(file_type) \in DOMAIN cache_entries
       => cache_entries'[DbKey(file_type)] = cache_entries[DbKey(file_type)]

(* C21: with concurrent callers of get_dataframe, load_file and forced
   reloads, every table a caller obtains, and every in-memory table a caller
   could read, is the whole of one content of the database table of its kind,
   never a mixture of two; and a step of a call on one kind leaves the
   in-memory table and the cache entry of every other kind as they were. *)
C21_ReadersSeeWholeTables ==
    [][/\ \A t \in Threads :
             (threads'[t].pc = "done" /\ ~IsNone(threads'[t].obtained))
             => threads'[t].obtained.rows \in Versions(threads'[t].file_type)
       /\ \A k \in DOMAIN loaded_data' : loaded_data'[k].rows \in Versions(k)
       /\ \A t \in Threads :
             (threads'[t] # threads[t])
             => \A k \in FileType \ {threads'[t].file_type} : KindUntouched(k)]_vars

(* one caller obtained the payable table through get_dataframe, another the
   changed table through a forced reload *)
C21_Witness ==
    /\ \A t \in Threads : threads[t].pc = "done"
    /\ threads[1].op = "get_dataframe" /\ threads[1].file_type = "Payable"
    /\ ~IsNone(threads[1].obtained) /\ threads[1].obtained.rows = PayableRows1
    /\ threads[2].op = "load_file" /\ threads[2].force_reload
    /\ threads[2].file_type = "Payable"
    /\ ~IsNone(threads[2].obtained) /\ threads[2].obtained.rows = PayableRows2
    /\ loaded_data["Payable"].rows = PayableRows2

-----------------------------------------------------------------------------
(* Top Beneficiaries over payable tables of every content and row order, with
   every top_n up to MaxTop and with the default *)

MaxTop == 2

TopRows ==
    {[document_date |-> Day(-3), amount |-> a, due_date |-> Day(5),
      beneficiary |-> n] : n \in {"A", "B", "C"}, a \in {10, 20, NaN}}

TopArgs ==
    {<<>>} \cup {<< <<"top_n", IntArg(n, <<"0", "1", "2", "3">>[n + 1])>> >> :
                    n \in 0..MaxTop}

InitTop ==
    \E p \in SeqsUpTo(TopRows, MaxRows) :
        InitWith([Tables1 EXCEPT !["Payable"] = Table("Payable", p)], FALSE)

NextTop ==
    \E kw \in TopArgs :
        calls < MaxProbes /\ Analyze("Payable", "Top Beneficiaries", kw)

SpecTop == InitTop /\ [][NextTop]_vars

(* the payable rows of a beneficiary that have a number for amount *)
RowsOf(name) ==
    LET Is(r) == r.beneficiary = name /\ r.amount # NaN
    IN  SelectSeq(source["Payable"].rows, Is)

GroupNames == {n \in {"A", "B", "C"} : RowsOf(n) # <<>>}

GroupSum(name) == SumSeq([i \in DOMAIN RowsOf(name) |-> RowsOf(name)[i].amount])

(* the top_n the call was made with *)
TopN == IF HasKw(ret.kwargs, "top_n") THEN ValueOf(ret.kwargs, "top_n").n
        ELSE DefaultTopN

(* C22: Top Beneficiaries returns min(top_n, number of groups) groups in
   non-increasing order of their sums, each a different group with the sum
   and the count of its rows that have a number for amount, and no group left
   out has a larger sum than one that is in. *)
C22_TopGroups ==
    (AnalyzeReturned /\ ret.analysis_type = "Top Beneficiaries")
    => /\ ~IsNone(ret.data) /\ ret.data.error = ""
       /\ LET top == ret.data.detail
              In(n) == \E i \in DOMAIN top : top[i].name = n
          IN  /\ Len(top) = (IF TopN < Cardinality(GroupNames) THEN TopN
                             ELSE Cardinality(GroupNames))
              /\ \A i \in DOMAIN top :
                    /\ top[i].name \in GroupNames
                    /\ top[i].sum = GroupSum(top[i].name)
                    /\ top[i].count = Len(RowsOf(top[i].name))
                    /\ \A j \in DOMAIN top :
                          /\ i < j => top[i].sum >= top[j].sum
                          /\ i # j => top[i].name # top[j].name
                    /\ \A n \in GroupNames : ~In(n) => GroupSum(n) <= top[i].sum

(* with top_n = 1 and two groups the one of the larger sum is returned
   though its row comes second *)
C22_Witness ==
    /\ AnalyzeReturned /\ ret.analysis_type = "Top Beneficiaries"
    /\ ~IsNone(ret.data) /\ TopN = 1
    /\ Cardinality(GroupNames) = 2
    /\ Len(ret.data.detail) = 1
    /\ ret.data.detail[1].name = source["Payable"].rows[2].beneficiary
    /\ ret.data.detail[1].sum = 20

(* C22, amended: the same of a table that has rows; for a table without rows
   the call returns no list. *)
C22_TopGroupsOfRows ==
    (AnalyzeReturned /\ ret.analysis_type = "Top Beneficiaries")
    => IF PrimaryMissing("Payable")
       THEN IsNone(ret.data)
       ELSE /\ ~IsNone(ret.data) /\ ret.data.error = ""
            /\ LET top == ret.data.detail
                   In(n) == \E i \in DOMAIN top : top[i].name = n
               IN  /\ Len(top) = (IF TopN < Cardinality(GroupNames) THEN TopN
                                  ELSE Cardinality(GroupNames))
                   /\ \A i \in DOMAIN top :
                         /\ top[i].name \in GroupNames
                         /\ top[i].sum = GroupSum(top[i].name)
                         /\ top[i].count = Len(RowsOf(top[i].name))
                         /\ \A j \in DOMAIN top :
                               /\ i < j => top[i].sum >= top[j].sum
                               /\ i # j => top[i].name # top[j].name
                         /\ \A n \in GroupNames :
                               ~In(n) => GroupSum(n) <= top[i].sum

-----------------------------------------------------------------------------
(* The process-local cache called directly: sets, gets, deletes and clears of
   two keys while time passes *)

LocalKeys == {DbKey("Payable"), DbKey("Receivable")}

LocalValues ==
    {ToRecords([cols |-> SchemaColumns("Payable"), rows |-> rows]) :
        rows \in {PayableRows1, PayableRows2}}

InitLocal == InitWith(Tables1, FALSE)

NextLocal ==
    \/ \E key \in LocalKeys, value \in LocalValues :
           calls < MaxCalls /\ Set(key, value)
    \/ \E key \in LocalKeys : calls < MaxCalls /\ Get(key)
    \/ \E key \in LocalKeys : calls < MaxCalls /\ Delete(key)
    \/ calls < MaxCalls /\ Clear
    \/ Tick

SpecLocal == InitLocal /\ [][NextLocal]_vars

(* a step that is a direct call of the cache *)
CacheStep(op) == calls' = calls + 1 /\ ret'.op = op

(* the entry of a key is what it was, or there is none as before *)
EntryKept(key) ==
    /\ (key \in DOMAIN cache_entries') = (key \in DOMAIN cache_entries)
    /\ key \in DOMAIN cache_entries => cache_entries'[key] = cache_entries[key]

(* C23: with the process-local backend a set leaves the key with its value
   and the expiry now + TTL; a delete removes the key and a clear every key;
   nothing else but a get of the key touches an entry, so an expired entry
   stays in the map as time passes; a get returns the value of an entry whose
   expiry is after now and leaves it, and removes an entry that has expired
   and returns None, as it does when there is no entry. *)
C23_LocalCacheLifecycle ==
    [][/\ CacheStep("set")
          => /\ cache_entries'[ret'.key] = [value |-> ret'.value,
                                             expires |-> now + TTL]
             /\ \A k \in LocalKeys \ {ret'.key} : EntryKept(k)
       /\ CacheStep("delete")
          => /\ ret'.key \notin DOMAIN cache_entries'
             /\ \A k \in LocalKeys \ {ret'.key} : EntryKept(k)
       /\ CacheStep("clear") => cache_entries' = <<>>
       /\ now' # now => \A k \in LocalKeys : EntryKept(k)
       /\ CacheStep("get")
          => /\ \A k \in LocalKeys \ {ret'.key} : EntryKept(k)
             /\ IF ret'.key \notin DOMAIN cache_entries
                THEN IsNone(ret'.value) /\ cache_entries' = cache_entries
                ELSE IF now < cache_entries[ret'.key].expires
                THEN /\ ret'.value = cache_entries[ret'.key].value
                     /\ cache_entries' = cache_entries
                ELSE /\ IsNone(ret'.value)
                     /\ ret'.key \notin DOMAIN cache_entries']_vars

(* a get has found the entry of its key expired and removed it, while the
   expired entry of the other key is still in the map *)
C23_Witness ==
    /\ ret.op = "get" /\ IsNone(ret.value)
    /\ ret.key = DbKey("Payable")
    /\ DbKey("Payable") \notin DOMAIN cache_entries
    /\ DbKey("Receivable") \in DOMAIN cache_entries
    /\ cache_entries[DbKey("Receivable")].expires <= now
    /\ calls = MaxCalls

-----------------------------------------------------------------------------
(* the entries of a per-row record that hold a day *)
DayKeys == {"jalali_date", "performa_date", "invoice_date", "last_purchase", "month"}

IsSentinel(x) == x = NaN \/ x = NaT

(* no scalar entry and no entry of a record of either list is a sentinel *)
SentinelFree(data) ==
    /\ \A f \in DOMAIN data.fields : ~IsSentinel(data.fields[f])
    /\ \A list \in {data.detail, data.rollup} :
           \A i \in DOMAIN list :
               \A f \in DOMAIN list[i] \cap (NumberKeys \cup DayKeys) :
                   ~IsSentinel(list[i][f])

(* C24: a payload analyze returns on a miss holds no NaN and no NaT at any
   depth, and neither does the value it has written to the cache under the
   key of the call: each is replaced by None before the write and the
   return. *)
C24_PayloadHasNoSentinel ==
    (AnalyzeReturned /\ ~ret.hit /\ ~IsNone(ret.data))
    => LET key == AnalysisKey(ret.file_type, ret.analysis_type, ret.kwargs)
       IN  /\ SentinelFree(ret.data)
           /\ key \in DOMAIN cache_entries
           /\ cache_entries[key].value = ret.data
           /\ SentinelFree(cache_entries[key].value)

(* an On-time Payment result in which the gap of a row was NaN when computed
   has been returned with None in its place, next to a row with a gap *)
C24_Witness ==
    /\ AnalyzeReturned /\ ~ret.hit /\ ~IsNone(ret.data)
    /\ ret.data.error = ""
    /\ ret.data.fields.average_gap_days # PyNone
    /\ \E i \in DOMAIN ret.data.detail : ret.data.detail[i].gap_days = PyNone
    /\ \E i \in DOMAIN ret.data.detail : ret.data.detail[i].gap_days # PyNone

-----------------------------------------------------------------------------
(* the bucket of a row d days past its due date, by the stated boundaries *)
StatedBucket(d) ==
    IF d < 1 THEN "current"
    ELSE IF d <= 30 THEN "1-30"
    ELSE IF d <= 60 THEN "31-60"
    ELSE IF d <= 90 THEN "61-90"
    ELSE "90+"

(* the sum of the amounts of the rows of a kind's table with a parsable due
   date and a number whose stated bucket is among buckets *)
StatedSum(file_type, buckets) ==
    LET In(row) ==
            /\ jalali_to_gregorian(row.due_date) # NaT
            /\ row.amount # NaN
            /\ StatedBucket(Today - jalali_to_gregorian(row.due_date)) \in buckets
    IN  IF PrimaryMissing(file_type)
        THEN 0
        ELSE SumSeq(Amounts(SelectSeq(source[file_type].rows, In)))

(* C25: in an accounts-aging result each bucket sum of a side is the sum of
   the amounts of that side's rows with a parsable due date and a number that
   are d = today - due date days overdue with d < 1 for "current", 1..30 for
   "1-30", 31..60 for "31-60", 61..90 for "61-90" and d > 90 for "90+", and
   the side's overdue is the sum of its rows outside "current". *)
C25_BucketsByDaysOverdue ==
    (AnalyzeReturned /\ ret.analysis_type = "Accounts Aging" /\ ~IsNone(ret.data))
    => (ret.data.error = ""
        => LET f == ret.data.fields
           IN  /\ f.payables_current = StatedSum("Payable", {"current"})
               /\ f.payables_1_30 = StatedSum("Payable", {"1-30"})
               /\ f.payables_31_60 = StatedSum("Payable", {"31-60"})
               /\ f.payables_61_90 = StatedSum("Payable", {"61-90"})
               /\ f.payables_90_plus = StatedSum("Payable", {"90+"})
               /\ f.payables_overdue
                  = StatedSum("Payable", BucketNames \ {"current"})
               /\ f.receivables_current = StatedSum("Receivable", {"current"})
               /\ f.receivables_1_30 = StatedSum("Receivable", {"1-30"})
               /\ f.receivables_31_60 = StatedSum("Receivable", {"31-60"})
               /\ f.receivables_61_90 = StatedSum("Receivable", {"61-90"})
               /\ f.receivables_90_plus = StatedSum("Receivable", {"90+"})
               /\ f.receivables_overdue
                  = StatedSum("Receivable", BucketNames \ {"current"}))

-----------------------------------------------------------------------------
(* a step in which a call of analyze missed the cache and returned *)
AnalyzeMissed ==
    /\ calls' = calls + 1
    /\ ret'.op = "analyze" /\ ret'.outcome = "returned" /\ ~ret'.hit

(* C26: a call of analyze that missed the cache and returns a result has
   written it under the key of the call, so that a get of that key right
   after the call gives the data returned; a call that returns None leaves
   the cache as it was. *)
C26_MissWritesThrough ==
    [][AnalyzeMissed
       => IF IsNone(ret'.data)
          THEN cache_entries' = cache_entries
          ELSE CacheGet(cache_entries',
                        AnalysisKey(ret'.file_type, ret'.analysis_type,
                                    ret'.kwargs)).value
               = ret'.data]_vars

-----------------------------------------------------------------------------
(* the payload analyze computes from the tables now in memory *)
Fresh(file_type, analysis_type, kwargs) ==
    clean_data(Dispatch(Store, file_type, analysis_type, loaded_data[file_type],
                        kwargs).data)

(* C27: the call of analyze for a kind that follows a forced reload of that
   kind returns data computed from the table the reload has read, as they
   are or as the networked store hands them back, and not data computed from
   the table the reload replaced. *)
C27_AnalyzeAfterReloadIsFresh ==
    [][(/\ ret.op = "load_file" /\ ret.force_reload /\ ~IsNone(ret.df)
        /\ calls' = calls + 1
        /\ ret'.op = "analyze" /\ ret'.outcome = "returned"
        /\ ret'.file_type = ret.file_type
        /\ ~IsNone(ret'.data))
       => LET fresh == Fresh(ret'.file_type, ret'.analysis_type, ret'.kwargs)
          IN  ret'.data \in {fresh, JsonLoads(JsonDumps(fresh))}]_vars

-----------------------------------------------------------------------------
(* Loads and clear_cache of the payable and receivable tables while the
   payable table changes in the database *)

InitClear == \E redis \in BOOLEAN : InitWith(Tables1, redis)

NextClear ==
    \/ \E k \in CacheKinds, f \in BOOLEAN : calls < MaxCalls /\ LoadFile(k, f)
    \/ \E k \in CacheKinds : calls < MaxCalls /\ ClearCache(k)
    \/ \E rows \in {PayableRows1, PayableRows2} :
           SourceChange("Payable", Table("Payable", rows))
    \/ Tick

SpecClear == InitClear /\ [][NextClear]_vars

(* C28: the load of a kind without force that follows a clear_cache of that
   kind reads the database again: it returns the table the database holds
   now, not the table cached before the clear. *)
C28_ClearCacheInvalidates ==
    [][(/\ ret.op = "clear_cache" /\ ret.ok
        /\ calls' = calls + 1
        /\ ret'.op = "load_file" /\ ~ret'.force_reload
        /\ ret'.file_type = ret.file_type)
       => ret'.df = SourceFrame(ret'.file_type)]_vars

-----------------------------------------------------------------------------
(* Loads of either generation of the data manager, which the first call of a
   behaviour chooses, while tables become unreadable or empty *)

InitReload == \E redis \in BOOLEAN : InitWith(Tables1, redis)

NextReload ==
    \/ \E k \in CacheKinds, f \in BOOLEAN :
           calls < MaxCalls /\ ret.op # "excel_load_file" /\ LoadFile(k, f)
    \/ \E k \in CacheKinds, f \in BOOLEAN :
           calls < MaxCalls /\ ret.op # "load_file" /\ ExcelLoadFile(k, f)
    \/ \E k \in CacheKinds : SourceChange(k, Unreadable)
    \/ \E k \in CacheKinds : SourceChange(k, Table(k, <<>>))
    \/ Tick

SpecReload == InitReload /\ [][NextReload]_vars

(* C29: a forced load that fails and returns None leaves every table in
   memory and every cache entry, those of its own kind and those of the other
   kinds, exactly as they were before the call. *)
C29_FailedReloadChangesNothing ==
    [][(/\ calls' = calls + 1
        /\ ret'.op \in {"load_file", "excel_load_file"}
        /\ ret'.force_reload
        /\ IsNone(ret'.df))
       => /\ loaded_data' = loaded_data
          /\ cache_entries' = cache_entries]_vars

(* a forced reload of the payable table has failed after an earlier load had
   put the table in memory and in the cache, and both are still there *)
C29_Witness ==
    /\ ret.op = "load_file" /\ ret.force_reload /\ IsNone(ret.df)
    /\ ret.file_type = "Payable"
    /\ "Payable" \in DOMAIN loaded_data
    /\ DbKey("Payable") \in DOMAIN cache_entries
    /\ loaded_data["Payable"].rows = Rows1("Payable")

-----------------------------------------------------------------------------
(* cache.py with the process-local map under concurrent callers: get and set
   statement by statement.  A caller in a call is
   [pc, op, key, value, entry, result]. *)

LocalKey == DbKey("Payable")

StoredValues == {"v1", "v2"}

NoEntry == [value |-> None, expires |-> 0]

(* a caller enters get(key) *)
CallGet(t, key) ==
    /\ threads[t] = Idle
    /\ threads' = [threads EXCEPT ![t] =
           [pc |-> "get_check", op |-> "get", key |-> key, value |-> None,
            entry |-> NoEntry, result |-> None]]
    /\ calls' = calls + 1
    /\ UNCHANGED <<source, loaded_data, cache_entries, using_redis, redis_down, now,
                   ret>>

(* a caller enters set(key, value) *)
CallSet(t, key, value) ==
    /\ threads[t] = Idle
    /\ threads' = [threads EXCEPT ![t] =
           [pc |-> "set_store", op |-> "set", key |-> key, value |-> value,
            entry |-> NoEntry, result |-> None]]
    /\ calls' = calls + 1
    /\ UNCHANGED <<source, loaded_data, cache_entries, using_redis, redis_down, now,
                   ret>>

(* the caller's call ends with result *)
Done(t, result) ==
    threads' = [threads EXCEPT ![t].pc = "done", ![t].result = result]

(* get line 61: if key in self.in_memory_cache *)
GetCheck(t) ==
    /\ At(t, "get_check")
    /\ IF threads[t].key \in DOMAIN cache_entries
       THEN threads' = [threads EXCEPT ![t].pc = "get_read"]
       ELSE Done(t, None)
    /\ UNCHANGED <<source, loaded_data, cache_entries, using_redis, redis_down, now,
                   calls, ret>>

(* get line 62: entry = self.in_memory_cache[key]; a KeyError is caught at
   line 70 *)
GetRead(t) ==
    /\ At(t, "get_read")
    /\ IF threads[t].key \in DOMAIN cache_entries
       THEN threads' = [threads EXCEPT ![t].pc = "get_test",
                                       ![t].entry = cache_entries[threads[t].key]]
       ELSE Done(t, None)
    /\ UNCHANGED <<source, loaded_data, cache_entries, using_redis, redis_down, now,
                   calls, ret>>

(* get lines 63-64: the entry read is returned when it has not expired *)
GetTest(t) ==
    /\ At(t, "get_test")
    /\ IF threads[t].entry.expires > now
       THEN Done(t, threads[t].entry.value)
       ELSE threads' = [threads EXCEPT ![t].pc = "get_del"]
    /\ UNCHANGED <<source, loaded_data, cache_entries, using_redis, redis_down, now,
                   calls, ret>>

(* get lines 65-68: del self.in_memory_cache[key] removes whatever entry the
   key has now; a KeyError is caught at line 70 *)
GetDel(t) ==
    /\ At(t, "get_del")
    /\ cache_entries' = Remove(cache_entries, threads[t].key)
    /\ Done(t, None)
    /\ UNCHANGED <<source, loaded_data, using_redis, redis_down, now, calls, ret>>

(* set lines 91-95: the entry is stored with its expiry *)
SetStore(t) ==
    /\ At(t, "set_store")
    /\ cache_entries' = Put(cache_entries, threads[t].key,
                            [value |-> threads[t].value, expires |-> now + TTL])
    /\ threads' = [threads EXCEPT ![t].pc = "done", ![t].result = None,
                                  ![t].entry = [value |-> threads[t].value,
                                                expires |-> now + TTL]]
    /\ UNCHANGED <<source, loaded_data, using_redis, redis_down, now, calls, ret>>

InitRace == InitThreads

(* no caller has entered a call yet *)
NoneEntered == \A t \in Threads : threads[t] = Idle

NextRace ==
    \/ \E v \in StoredValues : calls < MaxCalls /\ NoneEntered /\ Set(LocalKey, v)
    \/ \E t \in Threads : calls < MaxCalls /\ CallGet(t, LocalKey)
    \/ \E t \in Threads, v \in StoredValues :
           calls < MaxCalls /\ CallSet(t, LocalKey, v)
    \/ \E t \in Threads : GetCheck(t)
    \/ \E t \in Threads : GetRead(t)
    \/ \E t \in Threads : GetTest(t)
    \/ \E t \in Threads : GetDel(t)
    \/ \E t \in Threads : SetStore(t)
    \/ Tick

SpecRace == InitRace /\ [][NextRace]_vars

(* caller t has completed a set whose entry has not expired, no call is
   under way and no other caller has made a set *)
SetStands(t) ==
    /\ threads[t].pc = "done" /\ threads[t].op = "set"
    /\ threads[t].entry.expires > now
    /\ \A u \in Threads \ {t} :
           /\ ~Running(u)
           /\ threads[u].pc = "done" => threads[u].op = "get"

(* C30: with the process-local map, once a set(k, v) and the calls of get(k)
   concurrent with it have finished, and before v expires, the map holds v
   under k, so that get(k) returns v: a get that had read the expired entry
   before the set does not undo the set. *)
C30_SetSurvivesConcurrentGet ==
    \A t \in Threads :
        SetStands(t)
        => /\ threads[t].key \in DOMAIN cache_entries
           /\ cache_entries[threads[t].key] = threads[t].entry

====
